---- MODULE Spec2Model ----
(***************************************************************************)
(* The key-ring orchestrator (KeyRingService) of the wallet background     *)
(* process, over the Secret Store (VaultService), the chain metadata       *)
(* (ChainsService) and the key-ring strategies it consumes.                *)
(*                                                                         *)
(* Synchronous handlers are one action each.  Asynchronous handlers are    *)
(* split at their awaits: the part up to the first await is the "start"    *)
(* action, which leaves a record in `pending`, and each continuation is a  *)
(* "resume" action that may run after any other handler has run.           *)
(***************************************************************************)
EXTENDS Integers, Sequences, FiniteSets, Bags, TLC

\* Bounds of the model: the vault ids handed out under Spec and under
\* SpecAsync, and the calls suspended at once under SpecAsync.
MaxIds == 1
MaxAsyncIds == 2
MaxPending == 2

\* The vault ids handed out under SpecPath.
MaxPathIds == 2

\* The vault ids handed out, and the calls suspended at once, under
\* SpecStarknet.
MaxStarknetIds == 1
MaxStarknetPending == 1

-----------------------------------------------------------------------------
(* JavaScript values stored in a vault's insensitive mapping.              *)

Num(n) == [kind |-> "num", num |-> n, str |-> ""]
Str(s) == [kind |-> "str", num |-> 0, str |-> s]
Obj(s) == [kind |-> "obj", num |-> 0, str |-> s]

\* JavaScript truthiness of a stored value: 0 and "" are falsy, objects are
\* truthy.
Truthy(val) ==
  CASE val.kind = "num" -> val.num # 0
    [] val.kind = "str" -> val.str # ""
    [] OTHER -> TRUE

\* `if (obj[key])`: an absent key reads as undefined, which is falsy.
TruthyAt(ins, key) == key \in DOMAIN ins /\ Truthy(ins[key])

\* { ...ins, ...patch }
Merge(ins, patch) ==
  [k \in (DOMAIN ins) \cup (DOMAIN patch) |->
     IF k \in DOMAIN patch THEN patch[k] ELSE ins[k]]

NoKeys == [k \in {} |-> Num(0)]

-----------------------------------------------------------------------------
(* Chain metadata (ChainsService).                                         *)

KnownChainIds == {"alpha-1", "beta-1", "gamma-1"}
UnknownChainId == "nochain-1"
ChainIdInputs == KnownChainIds \cup {UnknownChainId}
CoinTypeInputs == {0, 118}

\* alpha: default 118, alternative 0.  beta: default 0, no
\* alternativeBIP44s field.  gamma: default 60, an empty alternativeBIP44s.
ChainInfo(chainId) ==
  CASE chainId = "alpha-1" ->
         [chainId |-> chainId, coinType |-> 118, altDefined |-> TRUE,
          alts |-> <<0>>]
    [] chainId = "beta-1" ->
         [chainId |-> chainId, coinType |-> 0, altDefined |-> FALSE,
          alts |-> <<>>]
    [] OTHER ->
         [chainId |-> chainId, coinType |-> 60, altDefined |-> TRUE,
          alts |-> <<>>]

\* ChainIdHelper.parse(chainId).identifier: the chain id without its version.
ChainIdentifier(chainId) ==
  CASE chainId = "alpha-1" -> "alpha"
    [] chainId = "beta-1" -> "beta"
    [] chainId = "gamma-1" -> "gamma"
    [] OTHER -> "nochain"

\* `keyRing-${identifier}-coinType`
CoinTypeTag(chainId) == "keyRing-" \o ChainIdentifier(chainId) \o "-coinType"

\* chainInfo.alternativeBIP44s ?? []
AlternativesOrEmpty(info) == IF info.altDefined THEN info.alts ELSE <<>>

\* The negation of the condition that throws "Coin type is not associated
\* to chain".
CoinTypeAssociated(info, coinType) ==
  \/ info.coinType = coinType
  \/ \E i \in DOMAIN AlternativesOrEmpty(info) :
       AlternativesOrEmpty(info)[i] = coinType

-----------------------------------------------------------------------------
(* State.                                                                  *)

VARIABLES
  phase,          \* "constructed" until init() has run, then "ready"
  userPassword,   \* Secret Store: the signed-up password, NoPassword if none
  locked,         \* Secret Store: isLocked
  vaults,         \* Secret Store: the "keyRing" vaults, in store order
  nextId,         \* Secret Store: index of the next vault id to hand out
  selected,       \* KeyRingService._selectedVaultId, Undefined if unset
  kvSelected,     \* kvStore record "selectedVaultId", Undefined if null
  pending,        \* bag of asynchronous calls suspended at an await
  last            \* what the latest handler step did and returned, until
                  \* the caller has taken it

vars ==
  <<phase, userPassword, locked, vaults, nextId, selected, kvSelected,
    pending, last>>

Undefined == "undefined"
NoPassword == ""
UnknownVaultId == "v-unknown"
VaultIdPool == <<"v1", "v2", "v3", "v4">>

IsSignedUp == userPassword # NoPassword

VaultIds(vs) == {vs[i].id : i \in DOMAIN vs}

\* vaultService.getVaults("keyRing")
GetVaults == vaults

HasVault(vs, id) == \E i \in DOMAIN vs : vs[i].id = id

\* vaultService.getVault("keyRing", id), for an id the store holds
GetVault(vs, id) == vs[CHOOSE i \in DOMAIN vs : vs[i].id = id]

KeyRingType(vault) == vault.insensitive["keyRingType"].str

VaultIdInputs == VaultIds(vaults) \cup {UnknownVaultId}

-----------------------------------------------------------------------------
(* Secret Store (VaultService) operations the orchestrator calls.          *)

\* setAndMergeInsensitiveToVault("keyRing", id, patch)
SetAndMergeInsensitiveToVault(vs, id, patch) ==
  [i \in DOMAIN vs |->
     IF vs[i].id = id
       THEN [vs[i] EXCEPT !.insensitive = Merge(vs[i].insensitive, patch)]
       ELSE vs[i]]

\* addVault("keyRing", insensitive, sensitive): appends, under a fresh id
AddVault(vs, id, insensitive, sensitive) ==
  Append(vs, [id |-> id, insensitive |-> insensitive, sensitive |-> sensitive])

\* removeVault("keyRing", id)
RemoveVault(vs, id) == SelectSeq(vs, LAMBDA vault : vault.id # id)

\* checkUserPassword(password) resolves iff the password is the signed-up one
CheckUserPassword(password) == IsSignedUp /\ password = userPassword

PasswordInputs == {"pw", "bad"}
CreatePasswordInputs == {NoPassword, "pw"}

-----------------------------------------------------------------------------
(* Key-ring strategies (KeyRing[]), dispatched by keyRingType.             *)

RegisteredKeyRingTypes == {"mnemonic", "ledger", "private-key"}

\* getVaultKeyRing(vault) finds a strategy
HasVaultKeyRing(vault) == KeyRingType(vault) \in RegisteredKeyRingTypes

-----------------------------------------------------------------------------
(* What a handler step reports: the call, its outcome ("ok", "pending" or  *)
(* the message of the Error thrown), the value returned, the coin type     *)
(* handed to the key-ring strategy (-1 if none was invoked), what the      *)
(* step read or wrote before it ended, and the number of "keystore-changed"*)
(* events it dispatched.                                                   *)

\* A component of a BIP44HDPath is a JavaScript number: an integer n, or
\* the number n + 0.5, which is not an integer.
Whole(n) == [whole |-> TRUE, floor |-> n]
Fraction(n) == [whole |-> FALSE, floor |-> n]

BIP44Path(account, change, addressIndex) ==
  [account |-> account, change |-> change, addressIndex |-> addressIndex]

NoPath == BIP44Path(Whole(0), Whole(0), Whole(0))

\* What a signing operation of the Starknet adapter hands to the hash
\* function; NoHash when the step computes no hash.
NoHash == [rule |-> "none"]

\* The raw signature a signing operation of the adapter re-encodes and the
\* fields it returns; NoFormat when the step formats no signature.
NoFormat == [sig |-> <<>>, fields |-> <<>>]

\* null as a chain id or an address of the adapter's request entry point.
Null == "<null>"

\* The arguments of a request of the adapter and its response; NoRequest
\* when the step is no request.
NoRequest ==
  [internal |-> FALSE, permitted |-> Null, chainId |-> Null,
   response |-> [currentChainId |-> "", selectedAddress |-> ""]]

\* The report of a step; a create operation adds the path it was given, a
\* signing operation of the Starknet adapter the input it hashed.
Report(op, vault, chain, coinType, arg, result, ret, strategyCoinType, touched, events) ==
  [op |-> op, vault |-> vault, chain |-> chain, coinType |-> coinType,
   arg |-> arg, result |-> result, ret |-> ret,
   strategyCoinType |-> strategyCoinType, touched |-> touched,
   events |-> events, path |-> NoPath, hashed |-> NoHash,
   format |-> NoFormat, request |-> NoRequest]

NoReport == Report("none", "", "", -1, "", "", "", -1, {}, 0)

ErrLocked == "KeyRing is locked"
ErrUnknownVault == "Unknown vault"
ErrVaultNull == "Vault is null"
ErrNoChain == "There is no chain info"
ErrCoinType == "Coin type is not associated to chain"
ErrNotMnemonic == "Key is not from mnemonic"
ErrFinalized == "Coin type is already finalized"
ErrNotLedger == "Key is not from ledger"
ErrAppended == "App is already appended"
ErrEmpty == "Key ring is empty"
ErrUnsupportedVault == "Unsupported keyRing vault"
ErrUnsupportedShow == "Unsupported keyRing type to show sensitive data"
ErrMustPassword == "Must provide password to sign in to vault"
ErrPassword == "User password mismatch"
ErrVaultLocked == "Vault is not unlocked"

-----------------------------------------------------------------------------
(* Getters.                                                                *)

\* get keyRingStatus()
KeyRingStatus ==
  IF ~IsSignedUp \/ Len(GetVaults) = 0
    THEN "empty"
    ELSE IF locked THEN "locked" ELSE "unlocked"

\* get selectedVaultId(): the stored selection if it is truthy and names a
\* vault, else the first vault's id; throws when there is no vault
StoredSelectionValid == selected # Undefined /\ HasVault(vaults, selected)

SelectedVaultIdThrows == ~StoredSelectionValid /\ Len(GetVaults) = 0

\* Mutant: the stored selection is returned without the fallback.
SelectedVaultIdStored == selected

SelectedVaultId == IF StoredSelectionValid THEN selected ELSE GetVaults[1].id

-----------------------------------------------------------------------------
(* Helpers of the handlers.                                                *)

BoolStr(b) == IF b THEN "true" ELSE "false"

\* The autorun of init(): the kvStore record follows _selectedVaultId.
Persisted(sel) == IF sel # Undefined THEN sel ELSE Undefined

Outcome(result, touched) == [result |-> result, touched |-> touched]

StoreUnchanged == UNCHANGED <<phase, userPassword, locked, vaults, nextId>>
SelectionUnchanged == UNCHANGED <<selected, kvSelected>>
NothingWritten ==
  /\ StoreUnchanged
  /\ SelectionUnchanged
  /\ UNCHANGED pending

\* Handlers run to completion one at a time; the caller takes the report
\* of a step (Return) before the next handler step runs.
Ready == phase = "ready" /\ last.op = "none"

\* A read of the selectedVaultId accessor.  The getter checks neither the
\* lock state nor that init() has run.
ReadSelectedVaultId ==
  /\ last.op = "none"
  /\ last' = Report("selectedVaultId", "", "", -1, "",
                    IF SelectedVaultIdThrows THEN ErrEmpty ELSE "ok",
                    IF SelectedVaultIdThrows THEN "" ELSE SelectedVaultId,
                    -1, {}, 0)
  /\ NothingWritten

-----------------------------------------------------------------------------
(* lockKeyRing / unlockKeyRing                                             *)

LockKeyRing ==
  /\ Ready
  /\ locked' = TRUE
  /\ last' = Report("lockKeyRing", "", "", -1, "", "ok", "", -1, {}, 0)
  /\ UNCHANGED <<phase, userPassword, vaults, nextId, selected, kvSelected,
                 pending>>

\* vaultService.unlock(password) rejects a wrong password
UnlockKeyRingResult(password) ==
  IF CheckUserPassword(password) THEN "ok" ELSE ErrPassword

UnlockKeyRing(password) ==
  /\ Ready
  /\ locked' = IF UnlockKeyRingResult(password) = "ok" THEN FALSE ELSE locked
  /\ last' = Report("unlockKeyRing", "", "", -1, password,
                    UnlockKeyRingResult(password), "", -1, {}, 0)
  /\ UNCHANGED <<phase, userPassword, vaults, nextId, selected, kvSelected,
                 pending>>

-----------------------------------------------------------------------------
(* selectKeyRing                                                           *)

\* Mutant: the lock state is not checked.
SelectWithoutLockCheck(vaultId) ==
  IF ~HasVault(vaults, vaultId) THEN ErrUnknownVault ELSE "ok"

SelectKeyRingResult(vaultId) ==
  IF locked THEN ErrLocked
  ELSE IF ~HasVault(vaults, vaultId) THEN ErrUnknownVault
  ELSE "ok"

\* Events dispatched by selectKeyRing.
SelectKeyRingEvents(ok) == IF ok THEN 1 ELSE 0

SelectKeyRing(vaultId) ==
  LET ok == SelectKeyRingResult(vaultId) = "ok" IN
  /\ Ready
  /\ selected' = IF ok THEN vaultId ELSE selected
  /\ kvSelected' = Persisted(selected')
  /\ last' = Report("selectKeyRing", vaultId, "", -1, "",
                    SelectKeyRingResult(vaultId), "", -1, {},
                    SelectKeyRingEvents(ok))
  /\ StoreUnchanged
  /\ UNCHANGED pending

-----------------------------------------------------------------------------
(* finalizeMnemonicKeyCoinType / needMnemonicKeyCoinTypeFinalize           *)

\* `if (vault.insensitive[coinTypeTag])`
CoinTypeTagSet(vault, chainId) ==
  TruthyAt(vault.insensitive, CoinTypeTag(chainId))

\* Mutant: the vault is looked up before the coin type is checked.
FinalizeVaultLookupFirst(vaultId, chainId, coinType) ==
  IF locked THEN ErrLocked
  ELSE IF chainId \notin KnownChainIds THEN ErrNoChain
  ELSE IF ~HasVault(vaults, vaultId) THEN ErrVaultNull
  ELSE IF ~CoinTypeAssociated(ChainInfo(chainId), coinType) THEN ErrCoinType
  ELSE IF KeyRingType(GetVault(vaults, vaultId)) # "mnemonic"
    THEN ErrNotMnemonic
  ELSE IF CoinTypeTagSet(GetVault(vaults, vaultId), chainId) THEN ErrFinalized
  ELSE "ok"

FinalizeMnemonicKeyCoinTypeResult(vaultId, chainId, coinType) ==
  IF locked THEN ErrLocked
  ELSE IF chainId \notin KnownChainIds THEN ErrNoChain
  ELSE IF ~CoinTypeAssociated(ChainInfo(chainId), coinType) THEN ErrCoinType
  ELSE IF ~HasVault(vaults, vaultId) THEN ErrVaultNull
  ELSE IF KeyRingType(GetVault(vaults, vaultId)) # "mnemonic"
    THEN ErrNotMnemonic
  ELSE IF CoinTypeTagSet(GetVault(vaults, vaultId), chainId) THEN ErrFinalized
  ELSE "ok"

FinalizeMnemonicKeyCoinType(vaultId, chainId, coinType) ==
  LET result == FinalizeMnemonicKeyCoinTypeResult(vaultId, chainId, coinType)
  IN
  /\ Ready
  /\ vaults' =
       IF result = "ok"
         THEN SetAndMergeInsensitiveToVault(
                vaults, vaultId, CoinTypeTag(chainId) :> Num(coinType))
         ELSE vaults
  /\ last' = Report("finalizeMnemonicKeyCoinType", vaultId, chainId, coinType,
                    "", result, "", -1, {}, 0)
  /\ UNCHANGED <<phase, userPassword, locked, nextId, selected, kvSelected,
                 pending>>

NeedMnemonicKeyCoinTypeFinalizeResult(vaultId, chainId) ==
  IF locked THEN ErrLocked
  ELSE IF ~HasVault(vaults, vaultId) THEN ErrVaultNull
  ELSE "ok"

\* Mutant: the keyRingType of the vault is not looked at.
NeedWithoutTypeCheck(vaultId, chainId) ==
  ~CoinTypeTagSet(GetVault(vaults, vaultId), chainId)

\* The value returned when the call does not throw.
NeedMnemonicKeyCoinTypeFinalizeValue(vaultId, chainId) ==
  IF KeyRingType(GetVault(vaults, vaultId)) # "mnemonic"
    THEN FALSE
    ELSE ~CoinTypeTagSet(GetVault(vaults, vaultId), chainId)

NeedMnemonicKeyCoinTypeFinalize(vaultId, chainId) ==
  LET result == NeedMnemonicKeyCoinTypeFinalizeResult(vaultId, chainId) IN
  /\ Ready
  /\ last' = Report("needMnemonicKeyCoinTypeFinalize", vaultId, chainId, -1,
                    "", result,
                    IF result = "ok"
                      THEN BoolStr(NeedMnemonicKeyCoinTypeFinalizeValue(
                                     vaultId, chainId))
                      ELSE "",
                    -1, {}, 0)
  /\ NothingWritten

-----------------------------------------------------------------------------
(* appendLedgerKeyRing / changeKeyRingName                                 *)

AppInputs == {"Ethereum", "keyRingType"}
CreateAppInputs == {"Cosmos"}
NameInputs == {"renamed"}
CreateNameInputs == {"acct"}

\* Mutant: the "App is already appended" check is missing.
AppendWithoutAppendedCheck(id, app) ==
  IF ~HasVault(vaults, id) THEN ErrVaultNull
  ELSE IF KeyRingType(GetVault(vaults, id)) # "ledger" THEN ErrNotLedger
  ELSE "ok"

AppendLedgerKeyRingResult(id, app) ==
  IF ~HasVault(vaults, id) THEN ErrVaultNull
  ELSE IF KeyRingType(GetVault(vaults, id)) # "ledger" THEN ErrNotLedger
  ELSE IF TruthyAt(GetVault(vaults, id).insensitive, app) THEN ErrAppended
  ELSE "ok"

AppendLedgerKeyRing(id, app) ==
  LET result == AppendLedgerKeyRingResult(id, app) IN
  /\ Ready
  /\ vaults' =
       IF result = "ok"
         THEN SetAndMergeInsensitiveToVault(vaults, id, app :> Obj("pubKey"))
         ELSE vaults
  /\ last' = Report("appendLedgerKeyRing", id, "", -1, app, result, "", -1,
                    {}, 0)
  /\ UNCHANGED <<phase, userPassword, locked, nextId, selected, kvSelected,
                 pending>>

ChangeKeyRingNameResult(vaultId, name) ==
  IF locked THEN ErrLocked
  ELSE IF ~HasVault(vaults, vaultId) THEN ErrVaultNull
  ELSE "ok"

ChangeKeyRingName(vaultId, name) ==
  LET result == ChangeKeyRingNameResult(vaultId, name) IN
  /\ Ready
  /\ vaults' =
       IF result = "ok"
         THEN SetAndMergeInsensitiveToVault(
                vaults, vaultId, "keyRingName" :> Str(name))
         ELSE vaults
  /\ last' = Report("changeKeyRingName", vaultId, "", -1, name, result, "",
                    -1, {}, 0)
  /\ UNCHANGED <<phase, userPassword, locked, nextId, selected, kvSelected,
                 pending>>

-----------------------------------------------------------------------------
(* getPubKey / getPubKeyWithNotFinalizedCoinType / sign                    *)

DigestMethodInputs == {"keccak256"}
SignChainIdInputs == {"alpha-1", UnknownChainId}

\* The coin type getPubKey and sign resolve for a vault on a chain.
ResolveCoinType(vault, chainId) ==
  IF CoinTypeTagSet(vault, chainId)
    THEN vault.insensitive[CoinTypeTag(chainId)].num
    ELSE ChainInfo(chainId).coinType

\* getPubKeyWithVault / signWithVault: the lock check, then the strategy.
WithVaultOutcome(vault, touched) ==
  IF locked THEN Outcome(ErrLocked, touched)
  ELSE IF ~HasVaultKeyRing(vault) THEN Outcome(ErrUnsupportedVault, touched)
  ELSE Outcome("ok", touched \cup {"strategy"})

GetPubKeyOutcome(chainId, vaultId) ==
  IF locked THEN Outcome(ErrLocked, {})
  ELSE IF chainId \notin KnownChainIds THEN Outcome(ErrNoChain, {"chains"})
  ELSE IF ~HasVault(vaults, vaultId)
    THEN Outcome(ErrVaultNull, {"chains", "vault"})
  ELSE WithVaultOutcome(GetVault(vaults, vaultId), {"chains", "vault"})

GetPubKey(chainId, vaultId) ==
  LET out == GetPubKeyOutcome(chainId, vaultId) IN
  /\ Ready
  /\ last' = Report("getPubKey", vaultId, chainId, -1, "", out.result,
                    IF out.result = "ok" THEN "pubKey" ELSE "",
                    IF out.result = "ok"
                      THEN ResolveCoinType(GetVault(vaults, vaultId), chainId)
                      ELSE -1,
                    out.touched, 0)
  /\ NothingWritten

\* Mutant: the lock state is never checked.
NotFinalizedWithoutLockCheck(chainId, vaultId, coinType) ==
  IF chainId \notin KnownChainIds THEN Outcome(ErrNoChain, {"chains"})
  ELSE IF ~CoinTypeAssociated(ChainInfo(chainId), coinType)
    THEN Outcome(ErrCoinType, {"chains"})
  ELSE IF ~HasVault(vaults, vaultId)
    THEN Outcome(ErrVaultNull, {"chains", "vault"})
  ELSE IF KeyRingType(GetVault(vaults, vaultId)) # "mnemonic"
    THEN Outcome(ErrNotMnemonic, {"chains", "vault"})
  ELSE IF CoinTypeTagSet(GetVault(vaults, vaultId), chainId)
    THEN Outcome(ErrFinalized, {"chains", "vault"})
  ELSE Outcome("ok", {"chains", "vault", "strategy"})

GetPubKeyWithNotFinalizedCoinTypeOutcome(chainId, vaultId, coinType) ==
  IF locked THEN Outcome(ErrLocked, {})
  ELSE IF chainId \notin KnownChainIds THEN Outcome(ErrNoChain, {"chains"})
  ELSE IF ~CoinTypeAssociated(ChainInfo(chainId), coinType)
    THEN Outcome(ErrCoinType, {"chains"})
  ELSE IF ~HasVault(vaults, vaultId)
    THEN Outcome(ErrVaultNull, {"chains", "vault"})
  ELSE IF KeyRingType(GetVault(vaults, vaultId)) # "mnemonic"
    THEN Outcome(ErrNotMnemonic, {"chains", "vault"})
  ELSE IF CoinTypeTagSet(GetVault(vaults, vaultId), chainId)
    THEN Outcome(ErrFinalized, {"chains", "vault"})
  ELSE WithVaultOutcome(GetVault(vaults, vaultId), {"chains", "vault"})

GetPubKeyWithNotFinalizedCoinType(chainId, vaultId, coinType) ==
  LET out == GetPubKeyWithNotFinalizedCoinTypeOutcome(
               chainId, vaultId, coinType) IN
  /\ Ready
  /\ last' = Report("getPubKeyWithNotFinalizedCoinType", vaultId, chainId,
                    coinType, "", out.result,
                    IF out.result = "ok" THEN "pubKey" ELSE "",
                    IF out.result = "ok" THEN coinType ELSE -1,
                    out.touched, 0)
  /\ NothingWritten

\* Mutant: the chain metadata is looked up before the lock check.
SignChainLookupFirst(chainId, vaultId) ==
  IF chainId \notin KnownChainIds THEN Outcome(ErrNoChain, {"chains"})
  ELSE IF locked THEN Outcome(ErrLocked, {"chains"})
  ELSE IF ~HasVault(vaults, vaultId)
    THEN Outcome(ErrVaultNull, {"chains", "vault"})
  ELSE LET out == WithVaultOutcome(GetVault(vaults, vaultId),
                                   {"chains", "vault"}) IN
       IF out.result = "ok"
         THEN Outcome("ok", out.touched \cup {"write"})
         ELSE out

SignOutcome(chainId, vaultId) ==
  IF locked THEN Outcome(ErrLocked, {})
  ELSE IF chainId \notin KnownChainIds THEN Outcome(ErrNoChain, {"chains"})
  ELSE IF ~HasVault(vaults, vaultId)
    THEN Outcome(ErrVaultNull, {"chains", "vault"})
  ELSE LET out == WithVaultOutcome(GetVault(vaults, vaultId),
                                   {"chains", "vault"}) IN
       IF out.result = "ok"
         THEN Outcome("ok", out.touched \cup {"write"})
         ELSE out

\* The patch sign() merges into the vault after signing: the key is the
\* literal property name coinTypeTag.
SignPatch(vault, chainId) ==
  "coinTypeTag" :> Num(ResolveCoinType(vault, chainId))

Sign(chainId, vaultId, digestMethod) ==
  LET out == SignOutcome(chainId, vaultId) IN
  /\ Ready
  /\ vaults' =
       IF out.result = "ok"
         THEN SetAndMergeInsensitiveToVault(
                vaults, vaultId,
                SignPatch(GetVault(vaults, vaultId), chainId))
         ELSE vaults
  /\ last' = Report("sign", vaultId, chainId, -1, digestMethod, out.result,
                    IF out.result = "ok" THEN "signature" ELSE "",
                    IF out.result = "ok"
                      THEN ResolveCoinType(GetVault(vaults, vaultId), chainId)
                      ELSE -1,
                    out.touched, 0)
  /\ UNCHANGED <<phase, userPassword, locked, nextId, selected, kvSelected,
                 pending>>

-----------------------------------------------------------------------------
(* Asynchronous calls suspended at an await.                               *)

NoSecrets == [k \in {} |-> ""]

\* The Secret Store's encryption of a sensitive payload, and decrypt().
Encrypt(plain) == [cipher |-> plain]
Decrypt(blob) == blob.cipher

Call(op, stage, vault, password, name, arg, path, kind, sensitive) ==
  [op |-> op, stage |-> stage, vault |-> vault, password |-> password,
   name |-> name, arg |-> arg, path |-> path, kind |-> kind,
   sensitive |-> sensitive]

Suspend(call) == pending (+) SetToBag({call})
Resume(call) == pending (-) SetToBag({call})
Suspended == BagToSet(pending)

CreateOps ==
  {"createMnemonicKeyRing", "createLedgerKeyRing", "createPrivateKeyKeyRing"}

CreatesInFlight ==
  LET creates == {call \in Suspended : call.op \in CreateOps} IN
  BagCardinality([call \in creates |-> pending[call]])

\* Vault ids handed out or about to be.
IdsClaimed == (nextId - 1) + CreatesInFlight

-----------------------------------------------------------------------------
(* validateBIP44Path                                                       *)

PathInputs ==
  {BIP44Path(Whole(0), Whole(1), Whole(0)),
   BIP44Path(Whole(0), Whole(2), Whole(0))}

ErrAccount == "Invalid account in hd path"
ErrChange == "Invalid change in hd path"
ErrAddressIndex == "Invalid address index in hd path"

\* Number.isInteger(x), x < 0, x === n
IsInteger(x) == x.whole
IsNegative(x) == x.floor < 0
IsNumber(x, n) == x.whole /\ x.floor = n

\* Mutant: Number.isInteger is not consulted.
ValidateWithoutIsInteger(path) ==
  IF IsNegative(path.account) THEN ErrAccount
  ELSE IF ~(path.change.floor = 0 \/ path.change.floor = 1) THEN ErrChange
  ELSE IF IsNegative(path.addressIndex) THEN ErrAddressIndex
  ELSE "ok"

ValidateBIP44Path(path) ==
  IF ~IsInteger(path.account) \/ IsNegative(path.account) THEN ErrAccount
  ELSE IF \/ ~IsInteger(path.change)
          \/ ~(IsNumber(path.change, 0) \/ IsNumber(path.change, 1))
    THEN ErrChange
  ELSE IF ~IsInteger(path.addressIndex) \/ IsNegative(path.addressIndex)
    THEN ErrAddressIndex
  ELSE "ok"

\* A call of the static method on its own.
ValidatePath(path) ==
  /\ last.op = "none"
  /\ last' = [Report("validateBIP44Path", "", "", -1, "",
                     ValidateBIP44Path(path), "", -1, {}, 0)
                EXCEPT !.path = path]
  /\ NothingWritten

-----------------------------------------------------------------------------
(* createMnemonicKeyRing / createLedgerKeyRing / createPrivateKeyKeyRing   *)

\* Which create operations validate a derivation path.
ValidatesPath(op) == op \in {"createMnemonicKeyRing", "createLedgerKeyRing"}

PathResult(op, path) == IF ValidatesPath(op) THEN ValidateBIP44Path(path) ELSE "ok"

\* Mutant: a missing password is not refused before signUp.
CreateStartWithoutPasswordCheck(op, path, password) ==
  IF ~IsSignedUp
    THEN "pending"
    ELSE IF PathResult(op, path) # "ok"
      THEN PathResult(op, path)
      ELSE "pending"

\* The part of a create operation up to its first await.
CreateStartResult(op, path, password) ==
  IF ~IsSignedUp
    THEN IF password = NoPassword THEN ErrMustPassword ELSE "pending"
    ELSE IF PathResult(op, path) # "ok"
      THEN PathResult(op, path)
      ELSE "pending"

CreateStartStage == IF ~IsSignedUp THEN "signUp" ELSE "createKeyRingVault"

CreateStart(op, path, name, arg, password) ==
  LET result == CreateStartResult(op, path, password) IN
  /\ Ready
  /\ pending' =
       IF result = "pending"
         THEN Suspend(Call(op, CreateStartStage, "", password, name, arg,
                           IF CreateStartStage = "signUp" THEN path
                           ELSE NoPath,
                           "", NoSecrets))
         ELSE pending
  /\ last' = [Report(op, "", "", -1, arg, result, "", -1, {}, 0)
                EXCEPT !.path = path]
  /\ StoreUnchanged
  /\ SelectionUnchanged

CreateMnemonicKeyRing(path, name, password) ==
  CreateStart("createMnemonicKeyRing", path, name, "mnemonic words", password)

CreateLedgerKeyRing(app, path, name, password) ==
  CreateStart("createLedgerKeyRing", path, name, app, password)

CreatePrivateKeyKeyRing(name, password) ==
  CreateStart("createPrivateKeyKeyRing", NoPath, name, "private key",
              password)

\* After `await this.vaultService.signUp(password)`: the password is
\* committed and the store is unlocked; then the path is validated and the
\* strategy's createKeyRingVault is awaited.
CreateAfterSignUp(call) ==
  LET result == PathResult(call.op, call.path) IN
  /\ Ready
  /\ call \in Suspended
  /\ call.op \in CreateOps
  /\ call.stage = "signUp"
  /\ userPassword' = call.password
  /\ locked' = FALSE
  /\ pending' =
       IF result = "ok"
         THEN Resume(call) (+)
              SetToBag({[call EXCEPT !.stage = "createKeyRingVault",
                                     !.path = NoPath]})
         ELSE Resume(call)
  /\ last' = [Report(call.op, "", "", -1, call.arg,
                     IF result = "ok" THEN "pending" ELSE result,
                     "", -1, {"signUp"}, 0)
                EXCEPT !.path = call.path]
  /\ UNCHANGED <<phase, vaults, nextId>>
  /\ SelectionUnchanged

\* The chains createMnemonicKeyRing finalizes at once: those without
\* alternative coin types.
SingleCoinTypeChains ==
  {chainId \in KnownChainIds :
     ~ChainInfo(chainId).altDefined \/ Len(ChainInfo(chainId).alts) = 0}

\* coinTypes: tag -> the chain's default coin type
InitialCoinTypes ==
  [tag \in {CoinTypeTag(chainId) : chainId \in SingleCoinTypeChains} |->
     Num(ChainInfo(CHOOSE chainId \in SingleCoinTypeChains :
                     CoinTypeTag(chainId) = tag).coinType)]

\* keyRing.supportedKeyRingType() of the strategy a create operation uses
SupportedKeyRingType(op) ==
  CASE op = "createMnemonicKeyRing" -> "mnemonic"
    [] op = "createLedgerKeyRing" -> "ledger"
    [] OTHER -> "private-key"

\* vaultData of the strategy's createKeyRingVault
VaultDataInsensitive(call) ==
  IF call.op = "createLedgerKeyRing"
    THEN call.arg :> Obj("pubKey")
    ELSE NoKeys

VaultDataSensitive(call) ==
  CASE call.op = "createMnemonicKeyRing" -> "mnemonic" :> call.arg
    [] call.op = "createPrivateKeyKeyRing" -> "privateKey" :> call.arg
    [] OTHER -> NoSecrets

\* The insensitive object handed to addVault.
NewInsensitive(call) ==
  LET base == IF call.op = "createMnemonicKeyRing"
                THEN Merge(VaultDataInsensitive(call), InitialCoinTypes)
                ELSE VaultDataInsensitive(call)
      named == Merge(base,
                     "keyRingName" :> Str(call.name) @@
                     "keyRingType" :> Str(SupportedKeyRingType(call.op)))
  IN IF call.op = "createPrivateKeyKeyRing"
       THEN Merge(named, "keyRingMeta" :> Obj("meta"))
       ELSE named

\* addVault encrypts the sensitive part, which needs the store unlocked.
CreateFinishResult(call) == IF locked THEN ErrVaultLocked ELSE "ok"

\* After `await keyRing.createKeyRingVault(...)`: addVault, select, notify.
CreateFinish(call) ==
  LET result == CreateFinishResult(call)
      id == VaultIdPool[nextId]
  IN
  /\ Ready
  /\ call \in Suspended
  /\ call.op \in CreateOps
  /\ call.stage = "createKeyRingVault"
  /\ pending' = Resume(call)
  /\ IF result = "ok"
       THEN /\ vaults' = AddVault(vaults, id, NewInsensitive(call),
                                  Encrypt(VaultDataSensitive(call)))
            /\ nextId' = nextId + 1
            /\ selected' = id
       ELSE UNCHANGED <<vaults, nextId, selected>>
  /\ kvSelected' = Persisted(selected')
  /\ last' = Report(call.op, IF result = "ok" THEN id ELSE "", "", -1,
                    call.arg, result, IF result = "ok" THEN id ELSE "", -1,
                    {}, IF result = "ok" THEN 1 ELSE 0)
  /\ UNCHANGED <<phase, userPassword, locked>>

-----------------------------------------------------------------------------
(* deleteKeyRing                                                           *)

\* The part of deleteKeyRing up to `await checkUserPassword(password)`.
DeleteKeyRingStartResult(vaultId) ==
  IF locked THEN ErrLocked
  ELSE IF ~HasVault(vaults, vaultId) THEN ErrVaultNull
  ELSE "pending"

DeleteKeyRing(vaultId, password) ==
  LET result == DeleteKeyRingStartResult(vaultId) IN
  /\ Ready
  /\ pending' =
       IF result = "pending"
         THEN Suspend(Call("deleteKeyRing", "checkUserPassword", vaultId,
                           password, "", "", NoPath, "", NoSecrets))
         ELSE pending
  /\ last' = Report("deleteKeyRing", vaultId, "", -1, password, result, "",
                    -1, {}, 0)
  /\ StoreUnchanged
  /\ SelectionUnchanged

\* Mutant: the verdict of the password check is ignored.
DeleteWithoutPasswordCheck(call) ==
  IF SelectedVaultIdThrows THEN ErrEmpty ELSE "ok"

\* The continuation: the password check's verdict, then the selection
\* accessor, which throws when no vault is left.
DeleteKeyRingFinishResult(call) ==
  IF ~CheckUserPassword(call.password) THEN ErrPassword
  ELSE IF SelectedVaultIdThrows THEN ErrEmpty
  ELSE "ok"

\* const wasSelected = this.selectedVaultId === vaultId
WasSelected(vaultId) == SelectedVaultId = vaultId

\* Mutant: the selection is cleared even when a vault remains.
SelectionCleared(remaining) == Undefined

\* The selection after the vault was removed, when it was the selected one:
\* keyInfos[0].id, or undefined when no key info is left.
SelectionAfterDelete(remaining) ==
  IF Len(remaining) > 0 THEN remaining[1].id ELSE Undefined

\* Mutant: deleteKeyRing dispatches no event.
DeleteKeyRingSilent(wasSelected) == 0

\* Events dispatched by a deleteKeyRing that got past its checks.
DeleteKeyRingEvents(wasSelected) == IF wasSelected THEN 1 ELSE 0

DeleteKeyRingFinish(call) ==
  LET result == DeleteKeyRingFinishResult(call)
      wasSelected == WasSelected(call.vault)
      remaining == RemoveVault(vaults, call.vault)
  IN
  /\ Ready
  /\ call \in Suspended
  /\ call.op = "deleteKeyRing"
  /\ pending' = Resume(call)
  /\ IF result = "ok"
       THEN /\ vaults' = remaining
            /\ selected' = IF wasSelected
                             THEN SelectionAfterDelete(remaining)
                             ELSE selected
            /\ last' = Report("deleteKeyRing", call.vault, "", -1,
                              call.password, "ok", BoolStr(wasSelected), -1,
                              {"removeVault"},
                              DeleteKeyRingEvents(wasSelected))
       ELSE /\ UNCHANGED <<vaults, selected>>
            /\ last' = Report("deleteKeyRing", call.vault, "", -1,
                              call.password, result, "", -1, {}, 0)
  /\ kvSelected' = Persisted(selected')
  /\ UNCHANGED <<phase, userPassword, locked, nextId>>

-----------------------------------------------------------------------------
(* showSensitiveKeyRingData                                                *)

ShowSensitiveKeyRingDataStartResult(vaultId) ==
  IF locked THEN ErrLocked
  ELSE IF ~HasVault(vaults, vaultId) THEN ErrVaultNull
  ELSE "pending"

ShowSensitiveKeyRingData(vaultId, password) ==
  LET result == ShowSensitiveKeyRingDataStartResult(vaultId) IN
  /\ Ready
  /\ pending' =
       IF result = "pending"
         THEN Suspend(Call("showSensitiveKeyRingData", "checkUserPassword",
                           vaultId, password, "", "", NoPath,
                           KeyRingType(GetVault(vaults, vaultId)),
                           GetVault(vaults, vaultId).sensitive))
         ELSE pending
  /\ last' = Report("showSensitiveKeyRingData", vaultId, "", -1, password,
                    result, "", -1, {}, 0)
  /\ StoreUnchanged
  /\ SelectionUnchanged

\* Mutant: the verdict of the password check is ignored.
ShowWithoutPasswordCheck(call) ==
  IF call.kind \notin {"mnemonic", "private-key"} THEN ErrUnsupportedShow
  ELSE IF locked THEN ErrVaultLocked
  ELSE "ok"

\* The continuation: the password check's verdict, then the switch on the
\* captured vault's keyRingType; decrypt needs the store unlocked.
ShowSensitiveKeyRingDataFinishResult(call) ==
  IF ~CheckUserPassword(call.password) THEN ErrPassword
  ELSE IF call.kind \notin {"mnemonic", "private-key"} THEN ErrUnsupportedShow
  ELSE IF locked THEN ErrVaultLocked
  ELSE "ok"

ShownSecret(call) ==
  IF call.kind = "mnemonic"
    THEN Decrypt(call.sensitive)["mnemonic"]
    ELSE Decrypt(call.sensitive)["privateKey"]

ShowSensitiveKeyRingDataFinish(call) ==
  LET result == ShowSensitiveKeyRingDataFinishResult(call) IN
  /\ Ready
  /\ call \in Suspended
  /\ call.op = "showSensitiveKeyRingData"
  /\ pending' = Resume(call)
  /\ last' = Report("showSensitiveKeyRingData", call.vault, "", -1,
                    call.password, result,
                    IF result = "ok" THEN ShownSecret(call) ELSE "", -1,
                    IF result = "ok" THEN {"decrypt"} ELSE {}, 0)
  /\ StoreUnchanged
  /\ SelectionUnchanged

-----------------------------------------------------------------------------
(* KeyRingStarknetService: the signing operations of the Starknet adapter. *)

\* The chains whose modular chain info carries a "starknet" field.
StarknetChainIds == {"gamma-1"}
StarknetChainIdInputs == {"gamma-1", "alpha-1", UnknownChainId}

ErrNoModularChain == "There is no modular chain info"
ErrNotStarknet == "Chain is not a starknet chain"
ErrInvalidSigner == "Invalid signer"
ErrInvalidSignature == "Invalid signature"

StarknetSignOps ==
  {"signStarknetMessage", "signStarknetTransaction",
   "signStarknetDeployAccountTransaction", "signStarknetDeclareTransactionn"}

\* ETransactionVersion2 and ETransactionVersion3
ETransactionVersion2 ==
  {"0x0", "0x1", "0x2", "0x100000000000000000000000000000000",
   "0x100000000000000000000000000000001",
   "0x100000000000000000000000000000002"}
ETransactionVersion3 == {"0x3", "0x100000000000000000000000000000003"}

VersionInputs == {"0x1", "0x3", "0x9"}

\* EDataAvailabilityMode, EDAMode and intDAM; a mode that is neither L1 nor
\* L2 makes intDAM throw.
ErrEDAM == "EDAM conversion"
NoDAM == -1
DAModeInputs == {"L1", "L2", "L3"}

intDAM(dam) ==
  CASE dam = "L1" -> 0
    [] dam = "L2" -> 1
    [] OTHER -> NoDAM

\* The signer details of a transaction: its declared version and the two
\* data-availability modes.
SignerDetails(version, nonceDAM, feeDAM) ==
  [version |-> version, nonceDataAvailabilityMode |-> nonceDAM,
   feeDataAvailabilityMode |-> feeDAM]

\* The details of SpecStarknet: every version, both modes L1.
PlainDetailsInputs == {SignerDetails(v, "L1", "L1") : v \in VersionInputs}

\* The details of SpecStarknetTx: every version with every pair of modes.
DetailsInputs ==
  {SignerDetails(v, n, f) : v \in VersionInputs, n \in DAModeInputs,
                            f \in DAModeInputs}

\* The public key the strategy derives for a vault under a coin type, and
\* `0x${Buffer.from(pubKey.getStarknetAddress(...)).toString("hex")}`.
PubKeyOf(vaultId, coinType) == [vault |-> vaultId, coinType |-> coinType]

CoinTypeHex(coinType) ==
  CASE coinType = 0 -> "00"
    [] coinType = 60 -> "3c"
    [] coinType = 118 -> "76"
    [] OTHER -> "ff"

HexAddress(pubKey) == "0x" \o pubKey.vault \o CoinTypeHex(pubKey.coinType)

SignerInputs ==
  {HexAddress(PubKeyOf(id, 60)) : id \in {"v1", "v2"}} \cup {"0x0"}

\* getStarknetKey up to the promise of keyRingService.getPubKey.
GetStarknetKeyOutcome(vaultId, chainId) ==
  IF chainId \notin KnownChainIds
    THEN Outcome(ErrNoModularChain, {"modularChains"})
  ELSE IF chainId \notin StarknetChainIds
    THEN Outcome(ErrNotStarknet, {"modularChains"})
  ELSE LET out == GetPubKeyOutcome(chainId, vaultId) IN
       Outcome(out.result, out.touched \cup {"modularChains", "getPubKey"})

\* The frame of a signing operation suspended at an await.
StarknetCall(op, stage, vault, chain, signer, details, hexAddress) ==
  [op |-> op, stage |-> stage, vault |-> vault, chain |-> chain,
   signer |-> signer, details |-> details, hexAddress |-> hexAddress]

\* A signing operation up to `await this.getStarknetKey(vaultId, chainId)`.
StarknetSign(op, vaultId, chainId, signer, details) ==
  LET out == GetStarknetKeyOutcome(vaultId, chainId)
      ok == out.result = "ok"
      coinType == IF ok
                    THEN ResolveCoinType(GetVault(vaults, vaultId), chainId)
                    ELSE -1
  IN
  /\ Ready
  /\ pending' =
       IF ok
         THEN Suspend(StarknetCall(op, "getStarknetKey", vaultId, chainId,
                                   signer, details,
                                   HexAddress(PubKeyOf(vaultId, coinType))))
         ELSE pending
  /\ last' = Report(op, vaultId, chainId, -1, signer,
                    IF ok THEN "pending" ELSE out.result, "", coinType,
                    out.touched, 0)
  /\ StoreUnchanged
  /\ SelectionUnchanged

\* Which hash the operation computes for the declared version.
HashRule(op, version) ==
  IF op = "signStarknetMessage" THEN "message"
  ELSE IF version \in ETransactionVersion2 THEN "v2"
  ELSE IF version \in ETransactionVersion3 THEN "v3"
  ELSE "unsupported"

UnsupportedVersion(op) ==
  CASE op = "signStarknetTransaction" -> "unsupported signTransaction version"
    [] op = "signStarknetDeployAccountTransaction" ->
         "unsupported signDeployAccountTransaction version"
    [] OTHER -> "unsupported signDeclareTransaction version"

\* Mutant: every transaction is hashed by the v2 rule.
HashInputAlwaysV2(op, details) ==
  IF HashRule(op, details.version) = "message"
    THEN [rule |-> "message", kind |-> op]
  ELSE IF HashRule(op, details.version) = "unsupported" THEN NoHash
  ELSE [rule |-> "v2", kind |-> op, version |-> details.version]

\* The argument of the hash function: the v3 rule adds the two
\* data-availability modes, converted by intDAM.
HashInput(op, details) ==
  CASE HashRule(op, details.version) = "message" ->
         [rule |-> "message", kind |-> op]
    [] HashRule(op, details.version) = "v2" ->
         [rule |-> "v2", kind |-> op, version |-> details.version]
    [] HashRule(op, details.version) = "v3" ->
         [rule |-> "v3", kind |-> op, version |-> details.version,
          nonceDataAvailabilityMode |->
            intDAM(details.nonceDataAvailabilityMode),
          feeDataAvailabilityMode |->
            intDAM(details.feeDataAvailabilityMode)]
    [] OTHER -> NoHash

\* The error thrown while the hash is computed, "" when there is none.
HashError(op, details) ==
  IF HashRule(op, details.version) = "unsupported"
    THEN UnsupportedVersion(op)
  ELSE IF /\ HashRule(op, details.version) = "v3"
          /\ NoDAM \in {intDAM(details.nonceDataAvailabilityMode),
                        intDAM(details.feeDataAvailabilityMode)}
    THEN ErrEDAM
  ELSE ""

\* Mutant: the claimed signer is not compared with the derived address.
AfterKeyWithoutSignerCheck(call) ==
  IF HashError(call.op, call.details) # ""
    THEN Outcome(HashError(call.op, call.details), {})
  ELSE LET out == SignOutcome(call.chain, call.vault) IN
       Outcome(out.result, out.touched \cup {"hash", "sign"})

\* After the key: the signer check, the hash, and the call of
\* keyRingService.sign up to its promise.
StarknetSignAfterKeyOutcome(call) ==
  IF call.hexAddress # call.signer THEN Outcome(ErrInvalidSigner, {})
  ELSE IF HashError(call.op, call.details) # ""
    THEN Outcome(HashError(call.op, call.details), {})
  ELSE LET out == SignOutcome(call.chain, call.vault) IN
       Outcome(out.result, out.touched \cup {"hash", "sign"})

StarknetSignAfterKey(call) ==
  LET out == StarknetSignAfterKeyOutcome(call)
      ok == out.result = "ok"
      hashed == IF "hash" \in out.touched
                  THEN HashInput(call.op, call.details)
                  ELSE NoHash
  IN
  /\ Ready
  /\ call \in Suspended
  /\ call.op \in StarknetSignOps
  /\ call.stage = "getStarknetKey"
  /\ vaults' =
       IF ok
         THEN SetAndMergeInsensitiveToVault(
                vaults, call.vault,
                SignPatch(GetVault(vaults, call.vault), call.chain))
         ELSE vaults
  /\ pending' =
       IF ok
         THEN Resume(call) (+) SetToBag({[call EXCEPT !.stage = "sign"]})
         ELSE Resume(call)
  /\ last' = [Report(call.op, call.vault, call.chain, -1, call.signer,
                     IF ok THEN "pending" ELSE out.result, "",
                     IF ok
                       THEN ResolveCoinType(GetVault(vaults, call.vault),
                                            call.chain)
                       ELSE -1,
                     out.touched, 0)
               EXCEPT !.hashed = hashed]
  /\ UNCHANGED <<phase, userPassword, locked, nextId, selected, kvSelected>>

\* sig.v of the signature the strategy returns: a recovery id, or null.
NullRecovery == -1
RecoveryInputs == {NullRecovery, 0, 1, 27}

\* formatEthSignature
FormatEthSignatureResult(v) ==
  IF v = NullRecovery THEN ErrInvalidSignature ELSE "ok"

\* The raw signature: r and s are 32 bytes each, most significant byte
\* first.  Word(b1, b16, b17, b32) has the given bytes at the two ends of
\* the upper and of the lower half and zero elsewhere.
WordBytes == 32
LimbDigits == 32

Word(b1, b16, b17, b32) ==
  [i \in 1..WordBytes |->
     CASE i = 1 -> b1
       [] i = 16 -> b16
       [] i = 17 -> b17
       [] i = 32 -> b32
       [] OTHER -> 0]

RawSignature(r, s, v) == [r |-> r, s |-> s, v |-> v]

RInputs == {Word(0, 0, 0, 1), Word(0, 1, 0, 0), Word(255, 0, 128, 16)}
SInputs == {Word(0, 0, 0, 2), Word(1, 2, 3, 4)}
SignatureInputs ==
  {RawSignature(r, s, v) : r \in RInputs, s \in SInputs, v \in RecoveryInputs}

\* Buffer.from(bytes).toString("hex"): two hexadecimal digits a byte.
HexOfBytes(bytes) ==
  [i \in 1..(2 * Len(bytes)) |->
     IF i % 2 = 1 THEN bytes[(i + 1) \div 2] \div 16
                  ELSE bytes[i \div 2] % 16]

\* A number as its hexadecimal digits without leading zeros; zero is <<>>.
RECURSIVE StripZeros(_)
StripZeros(digits) ==
  IF digits # <<>> /\ Head(digits) = 0 THEN StripZeros(Tail(digits))
  ELSE digits

\* number.toString(16), the text after "0x" of a returned field.
ToHexString(number) == IF number = <<>> THEN <<0>> ELSE number

RECURSIVE HexOfNumber(_)
HexOfNumber(n) ==
  IF n < 16 THEN IF n = 0 THEN <<>> ELSE <<n>>
  ELSE Append(HexOfNumber(n \div 16), n % 16)

\* value & (2^128 - 1) and value >> 128, on the digits of the value.
LowLimb(number) ==
  IF Len(number) <= LimbDigits THEN number
  ELSE StripZeros(SubSeq(number, Len(number) - LimbDigits + 1, Len(number)))

HighLimb(number) ==
  IF Len(number) <= LimbDigits THEN <<>>
  ELSE SubSeq(number, 1, Len(number) - LimbDigits)

\* new CairoUint256("0x" + hex).toUint256HexString()
ToUint256HexString(bytes) ==
  LET number == StripZeros(HexOfBytes(bytes)) IN
  [low |-> ToHexString(LowLimb(number)),
   high |-> ToHexString(HighLimb(number))]

\* Mutant: the high limb comes before the low limb.
FormatHighFirst(sig) ==
  IF sig.v = NullRecovery THEN <<>>
  ELSE LET r == ToUint256HexString(sig.r)
           s == ToUint256HexString(sig.s)
       IN <<r.high, r.low, s.high, s.low, ToHexString(HexOfNumber(sig.v))>>

\* The fields formatEthSignature returns; <<>> when it throws.
FormatEthSignature(sig) ==
  IF sig.v = NullRecovery THEN <<>>
  ELSE LET r == ToUint256HexString(sig.r)
           s == ToUint256HexString(sig.s)
       IN <<r.low, r.high, s.low, s.high, ToHexString(HexOfNumber(sig.v))>>

\* After `await this.keyRingService.sign(...)`.
StarknetSignAfterSign(call, sig) ==
  /\ Ready
  /\ call \in Suspended
  /\ call.op \in StarknetSignOps
  /\ call.stage = "sign"
  /\ pending' = Resume(call)
  /\ last' = [Report(call.op, call.vault, call.chain, -1, call.signer,
                     FormatEthSignatureResult(sig.v),
                     IF FormatEthSignatureResult(sig.v) = "ok"
                       THEN "signature" ELSE "",
                     -1, {"formatEthSignature"}, 0)
               EXCEPT !.format = [sig |-> sig,
                                  fields |-> FormatEthSignature(sig)]]
  /\ StoreUnchanged
  /\ SelectionUnchanged

\* request: the entry point of the provider.  `permitted` is what
\* permissionService.getCurrentChainIdForStarknet(origin) returns.
InitType == "keplr_initStarknetProviderState"
EnableType == "keplr_enableStarknetProvider"
RequestTypeInputs == {InitType, EnableType, "keplr_other"}
RequestChainIdInputs == {Null, "gamma-1", "alpha-1"}
PermittedInputs == {Null, "gamma-1"}

ErrInternalChainId == "The chain id must be provided for the internal message."
ErrNotPermitted == "origin is not permitted. Please disconnect and reconnect to the website."
ErrTypeNotSupported == "The type is not supported."

NoResponse == [currentChainId |-> "", selectedAddress |-> ""]
Response(currentChainId, selectedAddress) ==
  [currentChainId |-> currentChainId, selectedAddress |-> selectedAddress]

\* permissionService.getCurrentChainIdForStarknet(origin) ?? chainId
CurrentChainId(permitted, chainId) ==
  IF permitted # Null THEN permitted ELSE chainId

\* getStarknetKeySelected up to the promise of keyRingService.getPubKey: the
\* selectedVaultId getter is read first.
GetStarknetKeySelectedOutcome(chainId) ==
  IF SelectedVaultIdThrows THEN Outcome(ErrEmpty, {"selectedVaultId"})
  ELSE LET out == GetStarknetKeyOutcome(SelectedVaultId, chainId) IN
       Outcome(out.result, out.touched \cup {"selectedVaultId"})

\* Mutant: the key of the selected vault is asked for before the chain id
\* is looked at.
RequestKeyFirst(internal, permitted, type, chainId) ==
  IF internal /\ chainId = Null THEN Outcome(ErrInternalChainId, {})
  ELSE IF CurrentChainId(permitted, chainId) = Null
    THEN LET out == GetStarknetKeySelectedOutcome("gamma-1") IN
         IF out.result # "ok" THEN out
         ELSE IF type = InitType THEN Outcome("ok", out.touched)
         ELSE Outcome(ErrNotPermitted, out.touched)
  ELSE LET out == GetStarknetKeySelectedOutcome(
                    CurrentChainId(permitted, chainId)) IN
       Outcome(IF out.result = "ok" THEN "pending" ELSE out.result,
               out.touched \cup {"permission"})

\* request up to `await this.getStarknetKeySelected(currentChainId)`.
RequestOutcome(internal, permitted, type, chainId) ==
  IF internal /\ chainId = Null THEN Outcome(ErrInternalChainId, {})
  ELSE IF CurrentChainId(permitted, chainId) = Null
    THEN IF type = InitType THEN Outcome("ok", {"permission"})
         ELSE Outcome(ErrNotPermitted, {"permission"})
  ELSE LET out == GetStarknetKeySelectedOutcome(
                    CurrentChainId(permitted, chainId)) IN
       Outcome(IF out.result = "ok" THEN "pending" ELSE out.result,
               out.touched \cup {"permission"})

RequestCall(type, chain, hexAddress, internal, permitted, chainId) ==
  [op |-> "request", stage |-> "getStarknetKey", type |-> type,
   chain |-> chain, hexAddress |-> hexAddress, internal |-> internal,
   permitted |-> permitted, chainId |-> chainId]

StarknetRequest(internal, permitted, type, chainId) ==
  LET out == RequestOutcome(internal, permitted, type, chainId)
      cur == CurrentChainId(permitted, chainId)
      suspends == out.result = "pending"
  IN
  /\ Ready
  /\ pending' =
       IF suspends
         THEN Suspend(RequestCall(
                type, cur,
                HexAddress(PubKeyOf(
                  SelectedVaultId,
                  ResolveCoinType(GetVault(vaults, SelectedVaultId), cur))),
                internal, permitted, chainId))
         ELSE pending
  /\ last' = [Report("request", "", IF suspends THEN cur ELSE "", -1, type,
                     out.result, "", -1, out.touched, 0)
               EXCEPT !.request =
                 [internal |-> internal, permitted |-> permitted,
                  chainId |-> chainId,
                  response |-> IF out.result = "ok"
                                 THEN Response(Null, Null)
                                 ELSE NoResponse]]
  /\ StoreUnchanged
  /\ SelectionUnchanged

\* request after the key of the selected vault: the switch on the type.
StarknetRequestAfterKey(call) ==
  LET supported == call.type \in {InitType, EnableType} IN
  /\ Ready
  /\ call \in Suspended
  /\ call.op = "request"
  /\ call.stage = "getStarknetKey"
  /\ pending' = Resume(call)
  /\ last' = [Report("request", "", call.chain, -1, call.type,
                     IF supported THEN "ok" ELSE ErrTypeNotSupported,
                     "", -1, {}, 0)
               EXCEPT !.request =
                 [internal |-> call.internal, permitted |-> call.permitted,
                  chainId |-> call.chainId,
                  response |-> IF supported
                                 THEN Response(call.chain, call.hexAddress)
                                 ELSE NoResponse]]
  /\ StoreUnchanged
  /\ SelectionUnchanged

-----------------------------------------------------------------------------
(* Construction and init().                                                *)

\* A new KeyRingService over the persisted Secret Store and kvStore: the
\* store comes up locked, _selectedVaultId is undefined, no call is in
\* flight.
Construct ==
  /\ Ready
  /\ phase' = "constructed"
  /\ locked' = TRUE
  /\ selected' = Undefined
  /\ pending' = EmptyBag
  /\ last' = NoReport
  /\ UNCHANGED <<userPassword, vaults, nextId, kvSelected>>

\* Mutant: init adopts the persisted id without looking for its vault.
InitSelectionUnvalidated == IF kvSelected # Undefined THEN kvSelected ELSE selected

\* init(): adopt the persisted selection if it names a vault; the autorun
\* then writes the selection back.
InitSelection ==
  IF kvSelected # Undefined /\ HasVault(vaults, kvSelected)
    THEN kvSelected
    ELSE selected

InitService ==
  /\ phase = "constructed"
  /\ last.op = "none"
  /\ phase' = "ready"
  /\ selected' = InitSelection
  /\ kvSelected' = Persisted(selected')
  /\ last' = Report("init", "", "", -1, "", "ok", "", -1, {}, 0)
  /\ UNCHANGED <<userPassword, locked, vaults, nextId, pending>>

-----------------------------------------------------------------------------
(* The state machine.                                                      *)

Init ==
  /\ phase = "constructed"
  /\ userPassword = NoPassword
  /\ locked = TRUE
  /\ vaults = <<>>
  /\ nextId = 1
  /\ selected = Undefined
  /\ kvSelected = Undefined
  /\ pending = EmptyBag
  /\ last = NoReport

\* The caller takes the report of the latest step.
Return ==
  /\ last.op # "none"
  /\ last' = NoReport
  /\ UNCHANGED <<phase, userPassword, locked, vaults, nextId, selected,
                 kvSelected, pending>>

\* Spec: callers are sequential.  A call is made only when no call is
\* suspended, so every call runs to its outcome before the next one starts.
NoCallInFlight == pending = EmptyBag

Calls ==
  \/ NoCallInFlight /\ ReadSelectedVaultId
  \/ NoCallInFlight /\ LockKeyRing
  \/ \E password \in PasswordInputs :
       NoCallInFlight /\ UnlockKeyRing(password)
  \/ \E vaultId \in VaultIdInputs :
       NoCallInFlight /\ SelectKeyRing(vaultId)
  \/ \E vaultId \in VaultIdInputs, chainId \in KnownChainIds,
        coinType \in CoinTypeInputs :
       NoCallInFlight /\ FinalizeMnemonicKeyCoinType(vaultId, chainId, coinType)
  \/ \E vaultId \in VaultIdInputs, chainId \in KnownChainIds :
       NoCallInFlight /\ NeedMnemonicKeyCoinTypeFinalize(vaultId, chainId)
  \/ \E vaultId \in VaultIdInputs, app \in AppInputs :
       NoCallInFlight /\ AppendLedgerKeyRing(vaultId, app)
  \/ \E vaultId \in VaultIdInputs, name \in NameInputs :
       NoCallInFlight /\ ChangeKeyRingName(vaultId, name)
  \/ \E chainId \in ChainIdInputs, vaultId \in VaultIdInputs :
       NoCallInFlight /\ GetPubKey(chainId, vaultId)
  \/ \E chainId \in ChainIdInputs, vaultId \in VaultIdInputs,
        coinType \in CoinTypeInputs :
       NoCallInFlight
         /\ GetPubKeyWithNotFinalizedCoinType(chainId, vaultId, coinType)
  \/ \E chainId \in SignChainIdInputs, vaultId \in VaultIdInputs,
        digestMethod \in DigestMethodInputs :
       NoCallInFlight /\ Sign(chainId, vaultId, digestMethod)
  \/ \E vaultId \in VaultIdInputs, password \in PasswordInputs :
       NoCallInFlight /\ DeleteKeyRing(vaultId, password)
  \/ \E vaultId \in VaultIdInputs, password \in PasswordInputs :
       NoCallInFlight /\ ShowSensitiveKeyRingData(vaultId, password)

\* A create call is made while the store still has an id to hand out.
CanCreate == NoCallInFlight /\ IdsClaimed < MaxIds

Creates ==
  \/ \E path \in PathInputs, name \in CreateNameInputs,
        password \in CreatePasswordInputs :
       CanCreate /\ CreateMnemonicKeyRing(path, name, password)
  \/ \E app \in CreateAppInputs, path \in PathInputs,
        name \in CreateNameInputs, password \in CreatePasswordInputs :
       CanCreate /\ CreateLedgerKeyRing(app, path, name, password)
  \/ \E name \in CreateNameInputs, password \in CreatePasswordInputs :
       CanCreate /\ CreatePrivateKeyKeyRing(name, password)

Resumes ==
  \/ \E call \in Suspended : CreateAfterSignUp(call)
  \/ \E call \in Suspended : CreateFinish(call)
  \/ \E call \in Suspended : DeleteKeyRingFinish(call)
  \/ \E call \in Suspended : ShowSensitiveKeyRingDataFinish(call)

Next ==
  \/ Return
  \/ InitService
  \/ Construct
  \/ Calls
  \/ Creates
  \/ Resumes

Spec == Init /\ [][Next]_vars

\* SpecAsync: callers are concurrent.  A call may be made while others are
\* suspended at an await, so the continuations interleave with the lock,
\* selection, create and delete operations.
CanSuspend == BagCardinality(pending) < MaxPending

AsyncCalls ==
  \/ ReadSelectedVaultId
  \/ LockKeyRing
  \/ \E password \in PasswordInputs : UnlockKeyRing(password)
  \/ \E vaultId \in VaultIdInputs : SelectKeyRing(vaultId)
  \/ \E vaultId \in VaultIdInputs, password \in PasswordInputs :
       CanSuspend /\ DeleteKeyRing(vaultId, password)

CanCreateAsync == CanSuspend /\ IdsClaimed < MaxAsyncIds

AsyncCreates ==
  \/ \E path \in PathInputs, name \in CreateNameInputs,
        password \in CreatePasswordInputs :
       CanCreateAsync /\ CreateMnemonicKeyRing(path, name, password)
  \/ \E app \in CreateAppInputs, path \in PathInputs,
        name \in CreateNameInputs, password \in CreatePasswordInputs :
       CanCreateAsync /\ CreateLedgerKeyRing(app, path, name, password)
  \/ \E name \in CreateNameInputs, password \in CreatePasswordInputs :
       CanCreateAsync /\ CreatePrivateKeyKeyRing(name, password)

AsyncResumes ==
  \/ \E call \in Suspended : CreateAfterSignUp(call)
  \/ \E call \in Suspended : CreateFinish(call)
  \/ \E call \in Suspended : DeleteKeyRingFinish(call)

NextAsync ==
  \/ Return
  \/ InitService
  \/ Construct
  \/ AsyncCalls
  \/ AsyncCreates
  \/ AsyncResumes

SpecAsync == Init /\ [][NextAsync]_vars

\* SpecPath: the derivation paths.  validateBIP44Path is applied to every
\* path of PathDomain, on its own and inside createMnemonicKeyRing and
\* createLedgerKeyRing, by one caller at a time.
AccountInputs == {Whole(-1), Whole(0), Whole(1), Fraction(0)}
ChangeInputs == {Whole(-1), Whole(0), Whole(1), Whole(2), Fraction(0)}
AddressIndexInputs == {Whole(-1), Whole(0), Whole(1), Fraction(0)}

PathDomain ==
  {BIP44Path(account, change, addressIndex) :
     account \in AccountInputs, change \in ChangeInputs,
     addressIndex \in AddressIndexInputs}

CanCreatePath == NoCallInFlight /\ IdsClaimed < MaxPathIds

PathCreates ==
  \/ \E path \in PathDomain, name \in CreateNameInputs,
        password \in CreatePasswordInputs :
       CanCreatePath /\ CreateMnemonicKeyRing(path, name, password)
  \/ \E app \in CreateAppInputs, path \in PathDomain,
        name \in CreateNameInputs, password \in CreatePasswordInputs :
       CanCreatePath /\ CreateLedgerKeyRing(app, path, name, password)

PathResumes ==
  \/ \E call \in Suspended : CreateAfterSignUp(call)
  \/ \E call \in Suspended : CreateFinish(call)

NextPath ==
  \/ Return
  \/ InitService
  \/ \E path \in PathDomain : ValidatePath(path)
  \/ NoCallInFlight /\ LockKeyRing
  \/ PathCreates
  \/ PathResumes

SpecPath == Init /\ [][NextPath]_vars

\* SpecStarknet: the signing operations of the adapter, one at a time,
\* interleaved at their awaits with lock, unlock and the create operations.
CanSuspendStarknet == BagCardinality(pending) < MaxStarknetPending
CanCreateStarknet == CanSuspendStarknet /\ IdsClaimed < MaxStarknetIds

StarknetCreates ==
  \/ \E path \in PathInputs, name \in CreateNameInputs,
        password \in CreatePasswordInputs :
       CanCreateStarknet /\ CreateMnemonicKeyRing(path, name, password)
  \/ \E app \in CreateAppInputs, path \in PathInputs,
        name \in CreateNameInputs, password \in CreatePasswordInputs :
       CanCreateStarknet /\ CreateLedgerKeyRing(app, path, name, password)

\* No signing operation of the adapter is suspended.
NoSignInFlight == \A call \in Suspended : call.op \notin StarknetSignOps

StarknetCalls ==
  \E op \in StarknetSignOps, vaultId \in VaultIdInputs,
     chainId \in StarknetChainIdInputs, signer \in SignerInputs,
     details \in PlainDetailsInputs :
    /\ CanSuspendStarknet
    /\ NoSignInFlight
    /\ StarknetSign(op, vaultId, chainId, signer, details)

StarknetResumes ==
  \/ \E call \in Suspended : CreateAfterSignUp(call)
  \/ \E call \in Suspended : CreateFinish(call)
  \/ \E call \in Suspended : StarknetSignAfterKey(call)
  \/ \E call \in Suspended, sig \in SignatureInputs :
       StarknetSignAfterSign(call, sig)

NextStarknet ==
  \/ Return
  \/ InitService
  \/ LockKeyRing
  \/ \E password \in PasswordInputs : UnlockKeyRing(password)
  \/ StarknetCreates
  \/ StarknetCalls
  \/ StarknetResumes

SpecStarknet == Init /\ [][NextStarknet]_vars

\* SpecGuards: showSensitiveKeyRingData and deleteKeyRing interleaved at
\* their awaits with each other, with lock and unlock and with the create
\* operations.
GuardedCalls ==
  \/ LockKeyRing
  \/ \E password \in PasswordInputs : UnlockKeyRing(password)
  \/ \E vaultId \in VaultIdInputs, password \in PasswordInputs :
       CanSuspend /\ DeleteKeyRing(vaultId, password)
  \/ \E vaultId \in VaultIdInputs, password \in PasswordInputs :
       CanSuspend /\ ShowSensitiveKeyRingData(vaultId, password)

GuardedResumes ==
  \/ \E call \in Suspended : CreateAfterSignUp(call)
  \/ \E call \in Suspended : CreateFinish(call)
  \/ \E call \in Suspended : DeleteKeyRingFinish(call)
  \/ \E call \in Suspended : ShowSensitiveKeyRingDataFinish(call)

NextGuards ==
  \/ Return
  \/ InitService
  \/ GuardedCalls
  \/ AsyncCreates
  \/ GuardedResumes

SpecGuards == Init /\ [][NextGuards]_vars

\* SpecSelection: SpecAsync started over a kvStore whose "selectedVaultId"
\* record may name a vault the Secret Store does not hold (the record is
\* written by an autorun that is not awaited).
InitWithPersisted ==
  /\ phase = "constructed"
  /\ userPassword = NoPassword
  /\ locked = TRUE
  /\ vaults = <<>>
  /\ nextId = 1
  /\ selected = Undefined
  /\ kvSelected \in {Undefined, VaultIdPool[1]}
  /\ pending = EmptyBag
  /\ last = NoReport

SpecSelection == InitWithPersisted /\ [][NextAsync]_vars

\* SpecRequest: the request entry point of the adapter, one request at a
\* time, with lock, unlock, select and the create operations.
RequestCalls ==
  \E internal \in BOOLEAN, permitted \in PermittedInputs,
     type \in RequestTypeInputs, chainId \in RequestChainIdInputs :
    NoCallInFlight /\ StarknetRequest(internal, permitted, type, chainId)

NextRequest ==
  \/ Return
  \/ InitService
  \/ LockKeyRing
  \/ \E password \in PasswordInputs : UnlockKeyRing(password)
  \/ StarknetCreates
  \/ RequestCalls
  \/ \E call \in Suspended : CreateAfterSignUp(call)
  \/ \E call \in Suspended : CreateFinish(call)
  \/ \E call \in Suspended : StarknetRequestAfterKey(call)

SpecRequest == Init /\ [][NextRequest]_vars

\* SpecStarknetTx: the three transaction operations on a starknet chain, with
\* every version and every pair of data-availability modes, one call at a
\* time.
TransactionOps == StarknetSignOps \ {"signStarknetMessage"}

TransactionCalls ==
  \E op \in TransactionOps, vaultId \in VaultIdInputs,
     chainId \in StarknetChainIds, signer \in SignerInputs,
     details \in DetailsInputs :
    NoCallInFlight /\ StarknetSign(op, vaultId, chainId, signer, details)

NextStarknetTx ==
  \/ Return
  \/ InitService
  \/ LockKeyRing
  \/ \E password \in PasswordInputs : UnlockKeyRing(password)
  \/ StarknetCreates
  \/ TransactionCalls
  \/ StarknetResumes

SpecStarknetTx == Init /\ [][NextStarknetTx]_vars

-----------------------------------------------------------------------------
(* Vocabulary of the properties.                                           *)

\* The vault with this id before and after a step, for an id both hold.
Survives(id) == HasVault(vaults, id) /\ HasVault(vaults', id)

\* The step is a handler step reporting this operation.
Reports(op) == last'.op = op

\* No vault entry, no selection and no notification changes in the step.
QuietStep ==
  /\ vaults' = vaults
  /\ selected' = selected
  /\ kvSelected' = kvSelected
  /\ last'.events = 0

FinalizeOp == "finalizeMnemonicKeyCoinType"

\* C1: once finalizeMnemonicKeyCoinType(v, c, t) has succeeded, a further
\* finalizeMnemonicKeyCoinType(v, c, t') does not succeed for any t', and
\* needMnemonicKeyCoinTypeFinalize(v, c) returns false.  Stated on the state
\* right after the successful call.
C1_FinalizeOnce ==
  [][\A vaultId \in VaultIds(vaults), chainId \in KnownChainIds :
       (/\ Reports(FinalizeOp)
        /\ last'.result = "ok"
        /\ last'.vault = vaultId
        /\ last'.chain = chainId) =>
         /\ \A coinType \in CoinTypeInputs :
              FinalizeMnemonicKeyCoinTypeResult(vaultId, chainId, coinType)'
                # "ok"
         /\ ~NeedMnemonicKeyCoinTypeFinalizeValue(vaultId, chainId)'
    ]_vars

\* C2: a coin-type tag present in a vault's insensitive mapping keeps its
\* value and is not removed by any step, for as long as the vault exists.
C2_TagImmutable ==
  [][\A vaultId \in VaultIds(vaults), chainId \in KnownChainIds :
       (/\ Survives(vaultId)
        /\ CoinTypeTag(chainId) \in DOMAIN GetVault(vaults, vaultId).insensitive)
       =>
         /\ CoinTypeTag(chainId)
              \in DOMAIN GetVault(vaults', vaultId).insensitive
         /\ GetVault(vaults', vaultId).insensitive[CoinTypeTag(chainId)]
              = GetVault(vaults, vaultId).insensitive[CoinTypeTag(chainId)]
    ]_vars

\* C3: of the finalizations of one (vault, chain) at most one succeeds and
\* at most one coin type is persisted.  On a chain with alternative coin
\* types only a finalization writes the tag, so there a finalization
\* succeeds only while the vault carries no tag for the chain.
C3_SingleFinalization ==
  [][\A vaultId \in VaultIds(vaults),
        chainId \in KnownChainIds \ SingleCoinTypeChains :
       (/\ Reports(FinalizeOp)
        /\ last'.result = "ok"
        /\ last'.vault = vaultId
        /\ last'.chain = chainId)
       => CoinTypeTag(chainId)
            \notin DOMAIN GetVault(vaults, vaultId).insensitive
    ]_vars

\* The step is a finalization with a coin type the chain does not accept.
ReportsUnassociated ==
  /\ Reports(FinalizeOp)
  /\ last'.chain \in KnownChainIds
  /\ ~CoinTypeAssociated(ChainInfo(last'.chain), last'.coinType)

\* C4 as stated: a finalization with a coin type that is neither the chain's
\* default nor an alternative always fails with the 'coin type is not
\* associated to chain' error and changes nothing.
C4_UnassociatedAlwaysCoinTypeError ==
  [][ReportsUnassociated => (last'.result = ErrCoinType /\ QuietStep)]_vars

\* C4 as amended: such a finalization always fails and changes nothing; the
\* error is the 'coin type is not associated to chain' error when the key
\* ring is unlocked and the locked error when it is locked.
C4_UnassociatedRejected ==
  [][ReportsUnassociated =>
       /\ last'.result = IF locked THEN ErrLocked ELSE ErrCoinType
       /\ QuietStep
    ]_vars

\* C4 witness: the coin-type error for an existing mnemonic vault that
\* already carries the chain's tag.
C4_Witness ==
  /\ last.op = FinalizeOp
  /\ last.result = ErrCoinType
  /\ HasVault(vaults, last.vault)
  /\ CoinTypeTag(last.chain) \in DOMAIN GetVault(vaults, last.vault).insensitive

\* C5: the keyRingType of a vault is the same after every step the vault
\* survives.
C5_KeyRingTypeImmutable ==
  [][\A vaultId \in VaultIds(vaults) :
       Survives(vaultId) =>
         /\ "keyRingType" \in DOMAIN GetVault(vaults', vaultId).insensitive
         /\ GetVault(vaults', vaultId).insensitive["keyRingType"]
              = GetVault(vaults, vaultId).insensitive["keyRingType"]
    ]_vars

\* C5 witness: appendLedgerKeyRing was called with app = "keyRingType" on a
\* ledger vault.
C5_Witness ==
  /\ last.op = "appendLedgerKeyRing"
  /\ last.arg = "keyRingType"
  /\ HasVault(vaults, last.vault)
  /\ KeyRingType(GetVault(vaults, last.vault)) = "ledger"
  /\ last.result = ErrAppended

WriterOps ==
  {"changeKeyRingName", FinalizeOp, "appendLedgerKeyRing", "sign"}

\* C6: while the key ring is locked, none of the operations that write to a
\* vault's insensitive data succeeds or changes a vault entry.
C6_WritersCheckLock ==
  [][(locked /\ last'.op \in WriterOps) =>
       (last'.result # "ok" /\ vaults' = vaults)]_vars

\* C7: while the store is locked, getPubKey and sign fail with the locked
\* error before the chain metadata or the vault is looked up, before any
\* key-ring strategy is invoked, and without writing to a vault.
C7_LockedBeforeAnything ==
  [][(locked /\ last'.op \in {"getPubKey", "sign"}) =>
       /\ last'.result = ErrLocked
       /\ last'.touched = {}
       /\ last'.strategyCoinType = -1
       /\ vaults' = vaults
    ]_vars

\* C7 witness: sign was refused on a locked store for an existing vault and
\* a known chain.
C7_Witness ==
  /\ locked
  /\ last.op = "sign"
  /\ last.result = ErrLocked
  /\ last.chain \in KnownChainIds
  /\ HasVault(vaults, last.vault)

SecretOps ==
  {"getPubKey", "getPubKeyWithNotFinalizedCoinType", "sign",
   "showSensitiveKeyRingData"}

\* C8: keyRingStatus is one of empty, locked, unlocked, and a public key, a
\* signature or a secret is returned only when it is unlocked: every such
\* call made while it is empty or locked fails.
C8_StatusGuardsSecrets ==
  [][/\ KeyRingStatus' \in {"empty", "locked", "unlocked"}
     /\ (last'.op \in SecretOps /\ KeyRingStatus # "unlocked") =>
          (last'.result \notin {"ok", "pending"} /\ last'.ret = "")
    ]_vars

\* C8 witness: getPubKey was refused on a signed-up, unlocked store that
\* holds no vault (status empty).
C8_Witness ==
  /\ KeyRingStatus = "empty"
  /\ IsSignedUp
  /\ ~locked
  /\ last.op = "getPubKey"
  /\ last.chain \in KnownChainIds
  /\ last.result = ErrVaultNull

\* The step resumes a suspended call.
ResumeStep == BagCardinality(pending') < BagCardinality(pending)

DeleteOp == "deleteKeyRing"

\* C9: a successful deleteKeyRing(v) re-selects the first remaining vault
\* when v was the selected vault and a vault remains, clears the selection
\* when none remains, and leaves it alone when v was not selected; it
\* dispatches keystore-changed, and returns true, exactly when v was the
\* selected vault.
C9_DeleteReselects ==
  [][(Reports(DeleteOp) /\ last'.result = "ok") =>
       LET wasSelected == SelectedVaultId = last'.vault
           remaining == SelectSeq(vaults, LAMBDA vault : vault.id # last'.vault)
       IN
       /\ vaults' = remaining
       /\ (wasSelected /\ Len(remaining) > 0) =>
            (selected' = remaining[1].id /\ HasVault(vaults', selected'))
       /\ (wasSelected /\ Len(remaining) = 0) => selected' = Undefined
       /\ ~wasSelected => selected' = selected
       /\ last'.events = (IF wasSelected THEN 1 ELSE 0)
       /\ last'.ret = BoolStr(wasSelected)
    ]_vars

\* C9 witness: the selected vault was deleted and another vault is now
\* selected.
C9_Witness ==
  /\ last.op = DeleteOp
  /\ last.result = "ok"
  /\ last.ret = "true"
  /\ last.events = 1
  /\ Len(vaults) > 0
  /\ selected = vaults[1].id

\* C10: a deleteKeyRing call made while the key ring is locked or for an
\* unknown vault fails at once, one whose password check fails fails when
\* it resumes, and both change no vault, selection or notification; a vault
\* leaves the store only in the continuation of a deleteKeyRing call for
\* that vault that got past those checks with the right password.
C10_DeleteGuards ==
  [][/\ (Reports(DeleteOp) /\ ~ResumeStep
           /\ (locked \/ ~HasVault(vaults, last'.vault))) =>
          /\ last'.result = IF locked THEN ErrLocked ELSE ErrVaultNull
          /\ pending' = pending
          /\ QuietStep
     /\ (Reports(DeleteOp) /\ ResumeStep /\ last'.arg # userPassword) =>
          (last'.result = ErrPassword /\ QuietStep)
     /\ VaultIds(vaults) \ VaultIds(vaults') # {} =>
          /\ Reports(DeleteOp)
          /\ ResumeStep
          /\ last'.result = "ok"
          /\ last'.arg = userPassword
          /\ VaultIds(vaults) \ VaultIds(vaults') = {last'.vault}
          /\ \E call \in Suspended :
               call.op = DeleteOp /\ call.vault = last'.vault
    ]_vars

\* C10 witness: a deleteKeyRing call for an existing vault failed on its
\* password and the vault is still there.
C10_Witness ==
  /\ last.op = DeleteOp
  /\ last.result = ErrPassword
  /\ HasVault(vaults, last.vault)
  /\ ~locked

-----------------------------------------------------------------------------
(* Creation, selection and the accessors.                                  *)

MnemonicOp == "createMnemonicKeyRing"

\* The step resumes a create call from its signUp await.
SignUpStep == "signUp" \in last'.touched

\* C11: on a system that is not signed up and holds no vault,
\* createMnemonicKeyRing without a password fails and creates nothing; with
\* a password it signs up, and with a valid path it then adds the vault and
\* returns its id, after which keyRingStatus is "unlocked", selectedVaultId
\* is the returned id, the store holds exactly that vault and one
\* keystore-changed was dispatched.  Stated step by step: the start of the
\* call, its continuation after signUp, its continuation after
\* createKeyRingVault, and the lock state in between.
C11_FreshCreateMnemonic ==
  [][/\ (Reports(MnemonicOp) /\ Suspended = {} /\ ~IsSignedUp) =>
          /\ last'.events = 0
          /\ vaults' = vaults /\ selected' = selected
          /\ userPassword' = userPassword
          /\ \/ /\ last'.result = ErrMustPassword
                /\ pending' = pending
             \/ /\ last'.result = "pending"
                /\ \E call \in Suspended' :
                     /\ call.stage = "signUp"
                     /\ call.password # NoPassword
                     /\ Suspended' = {call}
     /\ \A call \in Suspended :
          (/\ Reports(MnemonicOp) /\ SignUpStep
           /\ call.op = MnemonicOp /\ call.stage = "signUp"
           /\ ValidateBIP44Path(call.path) = "ok") =>
            /\ last'.result = "pending"
            /\ last'.events = 0
            /\ ~locked'
            /\ userPassword' = call.password
            /\ vaults' = vaults /\ selected' = selected
            /\ \E next \in Suspended' :
                 next.op = MnemonicOp /\ next.stage = "createKeyRingVault"
     /\ (Suspended # {} /\ Suspended' # {} /\ locked' # locked) => SignUpStep
     /\ \A call \in Suspended :
          (/\ Reports(MnemonicOp) /\ ~SignUpStep
           /\ call.op = MnemonicOp /\ call.stage = "createKeyRingVault"
           /\ ~locked /\ vaults = <<>>) =>
            /\ last'.result = "ok"
            /\ last'.ret \in {VaultIdPool[i] : i \in DOMAIN VaultIdPool}
            /\ KeyRingStatus' = "unlocked"
            /\ ~SelectedVaultIdThrows'
            /\ SelectedVaultId' = last'.ret
            /\ selected' = last'.ret
            /\ VaultIds(vaults') = {last'.ret}
            /\ last'.events = 1
    ]_vars

\* C11 witness: the first vault of the system was just created from a
\* mnemonic and is selected.
C11_Witness ==
  /\ last.op = MnemonicOp
  /\ last.result = "ok"
  /\ Len(vaults) = 1
  /\ last.ret = vaults[1].id
  /\ KeyRingType(vaults[1]) = "mnemonic"
  /\ KeyRingStatus = "unlocked"
  /\ nextId = 2

\* C12: selectedVaultId returns the stored selection when it names an
\* existing vault, else the id of the first vault when there is one, else
\* it fails with 'Key ring is empty'; a returned value names an existing
\* vault, and the read changes neither the stored selection nor the store.
C12_SelectedVaultIdAccessor ==
  [][Reports("selectedVaultId") =>
       LET stored == selected # Undefined /\ HasVault(vaults, selected) IN
       /\ stored => (last'.result = "ok" /\ last'.ret = selected)
       /\ (~stored /\ Len(vaults) > 0) =>
            (last'.result = "ok" /\ last'.ret = vaults[1].id)
       /\ (~stored /\ Len(vaults) = 0) => last'.result = ErrEmpty
       /\ last'.result = "ok" => HasVault(vaults', last'.ret)
       /\ selected' = selected
       /\ kvSelected' = kvSelected
       /\ vaults' = vaults
    ]_vars

\* C12 witness: with two vaults and no stored selection the accessor fell
\* back to the first vault.
C12_Witness ==
  /\ last.op = "selectedVaultId"
  /\ last.result = "ok"
  /\ selected = Undefined
  /\ Len(vaults) = 2
  /\ last.ret = vaults[1].id

\* C13: selectKeyRing(id) succeeds exactly when the key ring is unlocked
\* and id names an existing vault; it then makes id the selection and
\* dispatches one keystore-changed; otherwise it fails, the selection is
\* unchanged and nothing is dispatched.
C13_SelectKeyRing ==
  [][Reports("selectKeyRing") =>
       /\ vaults' = vaults
       /\ IF KeyRingStatus = "unlocked" /\ HasVault(vaults, last'.vault)
            THEN /\ last'.result = "ok"
                 /\ selected' = last'.vault
                 /\ last'.events = 1
            ELSE /\ last'.result =
                      IF locked THEN ErrLocked ELSE ErrUnknownVault
                 /\ selected' = selected
                 /\ kvSelected' = kvSelected
                 /\ last'.events = 0
    ]_vars

\* C13 witness: with two vaults, the first one was selected by
\* selectKeyRing.
C13_Witness ==
  /\ last.op = "selectKeyRing"
  /\ last.result = "ok"
  /\ last.events = 1
  /\ Len(vaults) = 2
  /\ last.vault = vaults[1].id
  /\ selected = vaults[1].id

IssuedVaultIds == {VaultIdPool[i] : i \in DOMAIN VaultIdPool}

\* C14: right after a successful createMnemonicKeyRing the new vault is, for
\* every known chain without alternative coin types, finalized with the
\* chain's default coin type (the tag holds it and
\* needMnemonicKeyCoinTypeFinalize returns false), and carries no tag for a
\* chain with alternatives (needMnemonicKeyCoinTypeFinalize returns true);
\* a vault created by createLedgerKeyRing or createPrivateKeyKeyRing
\* carries no coin-type tag.
C14_CreatePreFinalizes ==
  [][\A id \in IssuedVaultIds, chainId \in KnownChainIds :
       (/\ last'.op \in CreateOps
        /\ last'.result = "ok"
        /\ last'.ret = id) =>
         LET tag == CoinTypeTag(chainId)
             info == ChainInfo(chainId)
             ins == GetVault(vaults', id).insensitive
         IN
         IF last'.op # MnemonicOp
           THEN tag \notin DOMAIN ins
           ELSE IF AlternativesOrEmpty(info) = <<>>
             THEN /\ tag \in DOMAIN ins
                  /\ ins[tag] = Num(info.coinType)
                  /\ ~NeedMnemonicKeyCoinTypeFinalizeValue(id, chainId)'
             ELSE /\ tag \notin DOMAIN ins
                  /\ NeedMnemonicKeyCoinTypeFinalizeValue(id, chainId)'
    ]_vars

-----------------------------------------------------------------------------
(* Signing and coin-type resolution.                                       *)

\* C15: a sign call, successful or failed, leaves the insensitive mapping
\* of every vault as it was.
C15_SignWritesNothing ==
  [][Reports("sign") =>
       \A vaultId \in VaultIds(vaults) :
         /\ HasVault(vaults', vaultId)
         /\ GetVault(vaults', vaultId).insensitive
              = GetVault(vaults, vaultId).insensitive
    ]_vars

\* C16: the coin type getPubKey and sign hand to the key-ring strategy is
\* the value of the vault's tag for the chain whenever the tag is present,
\* and the chain's default coin type otherwise; both operations resolve
\* the same coin type in the same state.
C16_ResolvedCoinType ==
  [][\A vaultId \in VaultIds(vaults), chainId \in KnownChainIds :
       (/\ last'.op \in {"getPubKey", "sign"}
        /\ last'.result = "ok"
        /\ last'.vault = vaultId
        /\ last'.chain = chainId) =>
         LET tag == CoinTypeTag(chainId)
             ins == GetVault(vaults, vaultId).insensitive
         IN last'.strategyCoinType =
              IF tag \in DOMAIN ins
                THEN ins[tag].num
                ELSE ChainInfo(chainId).coinType
    ]_vars

-----------------------------------------------------------------------------
(* Vaults that are not mnemonic vaults.                                    *)

NeedOp == "needMnemonicKeyCoinTypeFinalize"

\* The step is a call of this operation on this vault, which exists and is
\* not a mnemonic vault; a finalization is one with an accepted coin type.
OnNonMnemonic(op, vaultId) ==
  /\ Reports(op)
  /\ last'.vault = vaultId
  /\ KeyRingType(GetVault(vaults, vaultId)) # "mnemonic"
  /\ op = FinalizeOp =>
       /\ last'.chain \in KnownChainIds
       /\ CoinTypeAssociated(ChainInfo(last'.chain), last'.coinType)

\* needMnemonicKeyCoinTypeFinalize changes no state.
NeedReadsOnly ==
  Reports(NeedOp) =>
    UNCHANGED <<phase, userPassword, locked, vaults, nextId, selected,
                kvSelected, pending>>

\* C17 as stated: on a vault that is not a mnemonic vault, a finalization
\* with an accepted coin type fails with 'Key is not from mnemonic' and
\* writes nothing, and needMnemonicKeyCoinTypeFinalize returns false;
\* needMnemonicKeyCoinTypeFinalize never changes any state.
C17_NonMnemonicAsStated ==
  [][/\ \A vaultId \in VaultIds(vaults) :
          /\ OnNonMnemonic(FinalizeOp, vaultId) =>
               (last'.result = ErrNotMnemonic /\ vaults' = vaults)
          /\ OnNonMnemonic(NeedOp, vaultId) =>
               (last'.result = "ok" /\ last'.ret = "false")
     /\ NeedReadsOnly
    ]_vars

\* C17 as amended: the same while the key ring is unlocked; while it is
\* locked both calls fail with the locked error, and write nothing.
C17_NonMnemonicUnlocked ==
  [][/\ \A vaultId \in VaultIds(vaults) :
          /\ OnNonMnemonic(FinalizeOp, vaultId) =>
               /\ last'.result = IF locked THEN ErrLocked ELSE ErrNotMnemonic
               /\ vaults' = vaults
          /\ OnNonMnemonic(NeedOp, vaultId) =>
               IF locked
                 THEN last'.result = ErrLocked /\ last'.ret = ""
                 ELSE last'.result = "ok" /\ last'.ret = "false"
     /\ NeedReadsOnly
    ]_vars

\* C17 witness: a finalization with an accepted coin type was refused on a
\* ledger vault of an unlocked key ring.
C17_Witness ==
  /\ last.op = FinalizeOp
  /\ last.result = ErrNotMnemonic
  /\ ~locked
  /\ HasVault(vaults, last.vault)
  /\ KeyRingType(GetVault(vaults, last.vault)) = "ledger"
  /\ CoinTypeAssociated(ChainInfo(last.chain), last.coinType)

-----------------------------------------------------------------------------
(* showSensitiveKeyRingData                                                *)

ShowOp == "showSensitiveKeyRingData"

\* The step leaves the store, the lock state, the selection and the
\* notification log alone.
ShowsOnly ==
  /\ UNCHANGED <<phase, userPassword, locked, vaults, nextId, selected,
                 kvSelected>>
  /\ last'.events = 0

\* C18: showSensitiveKeyRingData(v, password) fails at once when the key
\* ring is locked or v is unknown; otherwise the password check decides:
\* on a wrong password the call fails, on the right one it returns the
\* mnemonic of a mnemonic vault, the private key of a private-key vault,
\* and fails with the unsupported-type error for a ledger vault.  A failing
\* call decrypts nothing, and no call changes a vault, the selection or
\* the notification log.
C18_ShowSensitive ==
  [][/\ Reports(ShowOp) => ShowsOnly
     /\ (Reports(ShowOp) /\ last'.result # "ok") =>
          (last'.ret = "" /\ "decrypt" \notin last'.touched)
     /\ (Reports(ShowOp) /\ ~ResumeStep) =>
          /\ last'.result =
               IF locked THEN ErrLocked
               ELSE IF ~HasVault(vaults, last'.vault) THEN ErrVaultNull
               ELSE "pending"
          /\ last'.result # "pending" => pending' = pending
     /\ \A vaultId \in VaultIds(vaults) :
          (Reports(ShowOp) /\ ResumeStep /\ last'.vault = vaultId) =>
            LET vault == GetVault(vaults, vaultId) IN
            /\ ~locked
            /\ IF last'.arg # userPassword
                 THEN last'.result = ErrPassword
                 ELSE CASE KeyRingType(vault) = "mnemonic" ->
                             /\ last'.result = "ok"
                             /\ last'.ret = Decrypt(vault.sensitive)["mnemonic"]
                        [] KeyRingType(vault) = "private-key" ->
                             /\ last'.result = "ok"
                             /\ last'.ret =
                                  Decrypt(vault.sensitive)["privateKey"]
                        [] OTHER -> last'.result = ErrUnsupportedShow
     /\ (Reports(ShowOp) /\ ResumeStep) => HasVault(vaults, last'.vault)
    ]_vars

\* C18 witness: the private key of a private-key vault was returned.
C18_Witness ==
  /\ last.op = ShowOp
  /\ last.result = "ok"
  /\ last.ret = "private key"
  /\ HasVault(vaults, last.vault)
  /\ KeyRingType(GetVault(vaults, last.vault)) = "private-key"

-----------------------------------------------------------------------------
(* Derivation paths.                                                       *)

\* A path the claim accepts: account and addressIndex are non-negative
\* integers and change is exactly 0 or 1.
AcceptedPath(path) ==
  /\ path.account.whole /\ path.account.floor >= 0
  /\ path.change \in {Whole(0), Whole(1)}
  /\ path.addressIndex.whole /\ path.addressIndex.floor >= 0

PathErrors == {ErrAccount, ErrChange, ErrAddressIndex}

\* The step belongs to a createMnemonicKeyRing or createLedgerKeyRing call
\* whose path is not an accepted one.
CreatesWithRejectedPath ==
  /\ last'.op \in {MnemonicOp, "createLedgerKeyRing"}
  /\ ~AcceptedPath(last'.path)

\* validateBIP44Path accepts exactly the accepted paths.
ValidatesExactly ==
  Reports("validateBIP44Path") =>
    /\ last'.result \in PathErrors \cup {"ok"}
    /\ last'.result = "ok" <=> AcceptedPath(last'.path)

\* A step of a create call adds no vault, changes no selection and
\* dispatches nothing.
CreatesNothing ==
  /\ vaults' = vaults
  /\ selected' = selected
  /\ kvSelected' = kvSelected
  /\ last'.events = 0

\* C19 as stated: validateBIP44Path accepts a path iff account and
\* addressIndex are non-negative integers and change is 0 or 1, and a
\* createMnemonicKeyRing or createLedgerKeyRing call with a rejected path
\* fails with an invalid-path error, adds no vault, changes no selection
\* and dispatches nothing.  A step of such a call either suspends the call
\* or ends it with an invalid-path error.
C19_RejectedPathAlwaysPathError ==
  [][/\ ValidatesExactly
     /\ CreatesWithRejectedPath =>
          /\ last'.result \in PathErrors \cup {"pending"}
          /\ CreatesNothing
    ]_vars

\* C19 as amended: the same, except that on a system that is not signed up
\* a call without a password fails with 'Must provide password to sign in
\* to vault' before the path is looked at.  On a signed-up system the call
\* ends with the invalid-path error at once; on a system that is not
\* signed up a call with a password suspends at signUp and ends with the
\* invalid-path error when it resumes.
C19_RejectedPath ==
  [][/\ ValidatesExactly
     /\ CreatesWithRejectedPath =>
          /\ CreatesNothing
          /\ IF SignUpStep
               THEN /\ last'.result \in PathErrors
                    /\ pending' = EmptyBag
               ELSE IF IsSignedUp
                 THEN /\ last'.result \in PathErrors
                      /\ pending' = pending
                 ELSE \/ /\ last'.result = ErrMustPassword
                         /\ pending' = pending
                      \/ /\ last'.result = "pending"
                         /\ \E call \in Suspended' :
                              /\ call.stage = "signUp"
                              /\ call.path = last'.path
                              /\ call.password # NoPassword
    ]_vars

\* C19 witness: createLedgerKeyRing with change = 2 ended with the
\* invalid-change error on a signed-up system that holds a vault.
C19_Witness ==
  /\ last.op = "createLedgerKeyRing"
  /\ last.result = ErrChange
  /\ last.path.change = Whole(2)
  /\ last.touched = {}
  /\ IsSignedUp
  /\ Len(vaults) = 1

-----------------------------------------------------------------------------
(* The signer check of the Starknet adapter.                                *)

\* The step resumes the suspended call: one copy of its frame leaves the
\* pending calls.
ResumedHere(call) == CopiesIn(call, pending') < CopiesIn(call, pending)

AwaitsStarknetKey(call) ==
  /\ call.op \in StarknetSignOps
  /\ call.stage = "getStarknetKey"

\* C20: when one of the four signing operations of the adapter resumes with
\* the key of the target vault and the claimed signer differs from the key's
\* hexAddress, the call ends with "Invalid signer", keyRingService.sign is
\* not invoked for it (no frame of the call waits for a signature, nothing is
\* returned) and no vault is written.
C20_InvalidSigner ==
  [][\A call \in Suspended :
       (AwaitsStarknetKey(call) /\ ResumedHere(call)
          /\ call.signer # call.hexAddress)
       => /\ last'.op = call.op
          /\ last'.vault = call.vault
          /\ last'.result = ErrInvalidSigner
          /\ "sign" \notin last'.touched
          /\ last'.ret = ""
          /\ vaults' = vaults
          /\ pending' = Resume(call)]_vars

C20_Witness ==
  /\ last.op \in StarknetSignOps
  /\ last.result = ErrInvalidSigner
  /\ last.vault \in VaultIds(vaults)
  /\ last.chain \in StarknetChainIds

-----------------------------------------------------------------------------
(* The hash rule of the transaction operations.                             *)

DAModeFields == {"nonceDataAvailabilityMode", "feeDataAvailabilityMode"}

UnsupportedVersionErrors ==
  {"unsupported signTransaction version",
   "unsupported signDeployAccountTransaction version",
   "unsupported signDeclareTransaction version"}

\* The call is a transaction operation resumed with the key of its vault,
\* and its signer is the key's address.
HashesHere(call) ==
  /\ AwaitsStarknetKey(call)
  /\ ResumedHere(call)
  /\ call.op \in TransactionOps
  /\ call.signer = call.hexAddress

ModeNumber(dam) == IF dam = "L1" THEN 0 ELSE 1

-----------------------------------------------------------------------------
(* The re-encoding of the signature.                                        *)

\* A returned field, padded with leading zeros to the digits of one limb.
PadLimb(field) == [i \in 1..(LimbDigits - Len(field)) |-> 0] \o field

\* The number a short field denotes.
RECURSIVE FieldValue(_)
FieldValue(field) ==
  IF field = <<>> THEN 0
  ELSE 16 * FieldValue(SubSeq(field, 1, Len(field) - 1)) + field[Len(field)]

\* "0x" is followed by the digits of a number: no leading zero, "0" for zero.
IsHexNumber(field) ==
  /\ Len(field) >= 1
  /\ \A i \in 1..Len(field) : field[i] \in 0..15
  /\ field = <<0>> \/ field[1] # 0

\* low + high * 2^128 is the big-endian number of the bytes.
Reconstructs(low, high, bytes) ==
  /\ Len(low) <= LimbDigits
  /\ Len(high) <= LimbDigits
  /\ PadLimb(high) \o PadLimb(low) = HexOfBytes(bytes)

FormatsHere ==
  /\ last'.op \in StarknetSignOps
  /\ "formatEthSignature" \in last'.touched

\* C22: for a raw signature (r, s, v) with v present the adapter returns
\* exactly the five fields [r mod 2^128, r div 2^128, s mod 2^128,
\* s div 2^128, v] as hexadecimal numbers, r and s read as big-endian
\* unsigned integers, so that low + high * 2^128 reconstructs r and s; for
\* r = 1, s = 2, v = 1 the fields are (1, 0, 2, 0, "0x1").  With v null the
\* call fails with "Invalid signature" and returns no field.
C22_SignatureReencoding ==
  [][FormatsHere =>
       LET sig == last'.format.sig
           fields == last'.format.fields
       IN
       /\ sig.v # NullRecovery =>
            /\ last'.result = "ok"
            /\ Len(fields) = 5
            /\ \A i \in 1..5 : IsHexNumber(fields[i])
            /\ Reconstructs(fields[1], fields[2], sig.r)
            /\ Reconstructs(fields[3], fields[4], sig.s)
            /\ FieldValue(fields[5]) = sig.v
       /\ sig = RawSignature(Word(0, 0, 0, 1), Word(0, 0, 0, 2), 1) =>
            fields = << <<1>>, <<0>>, <<2>>, <<0>>, <<1>> >>
       /\ sig.v = NullRecovery =>
            /\ last'.result = ErrInvalidSignature
            /\ last'.ret = ""
            /\ fields = <<>>]_vars

C22_Witness ==
  /\ last.op \in StarknetSignOps
  /\ last.result = "ok"
  /\ last.format.sig = RawSignature(Word(255, 0, 128, 16), Word(1, 2, 3, 4), 27)
  /\ Len(last.format.fields) = 5

-----------------------------------------------------------------------------
(* The request entry point of the adapter.                                  *)

KeyRingTouches == {"selectedVaultId", "modularChains", "getPubKey", "sign"}

\* A request is taken in this step (not resumed).
RequestStarts == Reports("request") /\ ~ResumeStep

\* C23: a request for which no current chain id is resolved (none recorded
\* for the origin, none supplied) gets the neutral response
\* {currentChainId: null, selectedAddress: null} for the type
\* keplr_initStarknetProviderState and fails with the not-permitted error for
\* every other type, in both cases without calling the key ring; an internal
\* message without a chain id always fails.
C23_RequestWithoutChain ==
  [][RequestStarts =>
       LET q == last'.request IN
       /\ (q.permitted = Null /\ q.chainId = Null) =>
            /\ last'.touched \cap KeyRingTouches = {}
            /\ pending' = pending
            /\ vaults' = vaults
            /\ (~q.internal /\ last'.arg = InitType) =>
                 /\ last'.result = "ok"
                 /\ q.response = Response(Null, Null)
            /\ (~q.internal /\ last'.arg # InitType) =>
                 last'.result = ErrNotPermitted
       /\ (q.internal /\ q.chainId = Null) =>
            /\ last'.result \notin {"ok", "pending"}
            /\ q.response = NoResponse
            /\ pending' = pending]_vars

C23_Witness ==
  /\ last.op = "request"
  /\ last.result = "ok"
  /\ last.request.response = Response(Null, Null)
  /\ ~last.request.internal
  /\ locked
  /\ Len(GetVaults) > 0

-----------------------------------------------------------------------------
(* The keystore-changed notification.                                       *)

SelectionChangingOps == CreateOps \cup {"selectKeyRing", "deleteKeyRing"}

SilentOps ==
  {"changeKeyRingName", "finalizeMnemonicKeyCoinType", "appendLedgerKeyRing",
   "getPubKey", "sign", "lockKeyRing", "unlockKeyRing"}

Failed(report) == report.op # "none" /\ report.result \notin {"ok", "pending"}

-----------------------------------------------------------------------------
(* The life cycle of the selection.                                         *)

InitStep == phase = "constructed" /\ phase' = "ready"

SelectionReferencesVault == selected = Undefined \/ HasVault(vaults, selected)

\* C25: init adopts the persisted selection only if it names an existing
\* vault and otherwise leaves the selection absent; after init, whatever
\* select, create and delete operations ran, the stored selection is absent
\* or the id of an existing vault, it is absent when there is no vault, and
\* the persisted record equals the stored selection.
C25_SelectionLifecycle ==
  /\ [][InitStep =>
          selected' = (IF kvSelected # Undefined /\ HasVault(vaults, kvSelected)
                         THEN kvSelected ELSE Undefined)]_vars
  /\ [](phase = "ready" =>
          /\ SelectionReferencesVault
          /\ Len(GetVaults) = 0 => selected = Undefined
          /\ kvSelected = selected)

C25_Witness ==
  /\ phase = "ready"
  /\ last.op = "deleteKeyRing"
  /\ last.result = "ok"
  /\ Len(GetVaults) = 1
  /\ selected = GetVaults[1].id
  /\ kvSelected = selected

-----------------------------------------------------------------------------
(* Concurrent create operations and first-time initialization.              *)

\* The calls whose vaultService.signUp is in flight.
AwaitingSignUp(calls) ==
  {call \in BagToSet(calls) : call.op \in CreateOps /\ call.stage = "signUp"}

\* The step calls vaultService.signUp: a create call is suspended on it.
InvokesSignUp ==
  \E call \in AwaitingSignUp(pending') :
    CopiesIn(call, pending') > CopiesIn(call, pending)

\* C26: however create calls interleave on a system that is not signed up,
\* vaultService.signUp is invoked at most once: no create call invokes it
\* while the signUp of another create call is in flight.
C26_SignUpOnce ==
  [][InvokesSignUp => AwaitingSignUp(pending) = {}]_vars

-----------------------------------------------------------------------------
(* A create operation that fails on its path.                               *)

FailsOnPath == last'.op \in CreateOps /\ last'.result \in PathErrors

\* C27: a create operation that fails because its derivation path is
\* invalid leaves the system as it was: the Secret Store is signed up
\* exactly if it was, it is locked exactly if it was, and vaults and
\* selection are unchanged.
C27_RejectedPathChangesNothing ==
  [][FailsOnPath =>
       /\ userPassword' = userPassword
       /\ locked' = locked
       /\ vaults' = vaults
       /\ nextId' = nextId
       /\ selected' = selected
       /\ kvSelected' = kvSelected]_vars

-----------------------------------------------------------------------------
(* The guards of showSensitiveKeyRingData and deleteKeyRing at the effect.  *)

\* The step decrypts and returns a secret, or removes a vault entry.
ShowsSecret == Reports(ShowOp) /\ "decrypt" \in last'.touched
RemovesEntry == Reports(DeleteOp) /\ "removeVault" \in last'.touched

\* C28: however showSensitiveKeyRingData and deleteKeyRing interleave with
\* lockKeyRing and with deleteKeyRing of the same vault, the secret is
\* decrypted and returned, or the vault entry removed, only in a state where
\* the key ring is unlocked and the target vault still exists.
C28_GuardsHoldAtEffect ==
  [][(ShowsSecret \/ RemovesEntry) =>
       /\ ~locked
       /\ HasVault(vaults, last'.vault)]_vars

-----------------------------------------------------------------------------
(* Two deleteKeyRing calls for the same vault.                              *)

\* A deleteKeyRing call with the right password resumes after another call
\* removed its vault.
ResumesAfterRemoval(call) ==
  /\ call.op = DeleteOp
  /\ Reports(DeleteOp)
  /\ ResumedHere(call)
  /\ CheckUserPassword(call.password)
  /\ ~HasVault(vaults, call.vault)

\* C29: of two interleaved deleteKeyRing calls for the same vault with the
\* right password, the call that resumes after the entry was removed removes
\* nothing, does not report wasSelected = true, dispatches no event and ends
\* either with a not-found failure or with a result; it never fails with the
\* selection accessor's "key ring is empty" error.
C29_SecondDeleteDefinite ==
  [][\A call \in Suspended :
       ResumesAfterRemoval(call) =>
         /\ last'.result \in {"ok", ErrVaultNull, ErrUnknownVault}
         /\ last'.result # ErrEmpty
         /\ last'.ret # "true"
         /\ last'.events = 0
         /\ vaults' = vaults]_vars

-----------------------------------------------------------------------------
(* getPubKeyWithNotFinalizedCoinType                                        *)

NotFinalizedOp == "getPubKeyWithNotFinalizedCoinType"

\* The vault carries a finalization tag for the chain.
HasCoinTypeTag(vaultId, chainId) ==
  /\ HasVault(vaults, vaultId)
  /\ CoinTypeTag(chainId) \in DOMAIN GetVault(vaults, vaultId).insensitive

\* C30: getPubKeyWithNotFinalizedCoinType(chainId, vaultId, coinType)
\* returns a public key only when the key ring is unlocked, the coin type is
\* the chain's default or a listed alternative, the vault exists, is a
\* mnemonic vault and has no finalization tag for the chain; on an unlocked
\* key ring, for a mnemonic vault that carries the tag (as after a
\* successful finalizeMnemonicKeyCoinType), it fails with "Coin type is
\* already finalized" for every accepted coin type; it writes to no vault.
C30_NotFinalizedPubKey ==
  [][Reports(NotFinalizedOp) =>
       /\ vaults' = vaults
       /\ last'.result = "ok" =>
            /\ ~locked
            /\ last'.chain \in KnownChainIds
            /\ CoinTypeAssociated(ChainInfo(last'.chain), last'.coinType)
            /\ HasVault(vaults, last'.vault)
            /\ KeyRingType(GetVault(vaults, last'.vault)) = "mnemonic"
            /\ ~HasCoinTypeTag(last'.vault, last'.chain)
       /\ ( /\ ~locked
            /\ last'.chain \in KnownChainIds
            /\ CoinTypeAssociated(ChainInfo(last'.chain), last'.coinType)
            /\ HasCoinTypeTag(last'.vault, last'.chain)
            /\ KeyRingType(GetVault(vaults, last'.vault)) = "mnemonic" ) =>
            last'.result = ErrFinalized]_vars

====
